---- MODULE Spec2Model ----
(***************************************************************************)
(* A model of the Lies of P save editor core: the schema-preserving merge  *)
(* and save pipeline (app/core/file_manager.py) and the quest discovery,   *)
(* retargeting and import reconciliation (app/core/mission.py).            *)
(*                                                                         *)
(* JSON values are tagged records.  A Python dict is a sequence of         *)
(* <<key, value>> pairs in insertion order with pairwise distinct keys; a  *)
(* Python str is a TLA+ string (TLC evaluates Len, Head, Tail, SubSeq and  *)
(* \o on strings).                                                         *)
(***************************************************************************)
EXTENDS Integers, Sequences, FiniteSets, TLC

VARIABLES
    hashOrder,                         \* the iteration order of the set _WRAPPER_KEYS in
                                       \* this process (str hashes are seeded per process)
    keyOrder,                          \* whether this process iterates over the lowered
                                       \* _STATE_KEYS and _NAME_KEYS in reverse
    mBase, mEdited, mOut, mPc,         \* merge: baseline, edited tree, result, position
    rCur, rPrefix, rLeaf, rCanon, rCount,
                                       \* retarget: the stored enum string and the prefix it
                                       \* was stored with, the leaf now, the last canonical
                                       \* value applied, the number of applications

    sPc, sTarget, sTarget0, sTmp, sDebugCopy, sFailedCopy,
    sEdited, sRc, sStdout, sBaseline, sMerged, sEncoded, sStderr, sError, sProgress, sLog,
                                       \* save_sav: position, the files (target, target at
                                       \* the call, .sav.part, .merged.json, .failed.json),
                                       \* edited_data, to-json's return code and stdout,
                                       \* baseline, merged, from-json's stdout, the last
                                       \* stderr, the exception raised, the last progress
                                       \* ping, the steps completed in order

    dData, dPc, dFound, dRows,         \* discovery: the tree, position, the list found,
                                       \* what discover_quests returned

    qData, qData0, qImport, qImport0, qAddMissing, qPc, qIdx, qByName, qList,
    qAppliedRows, qAppliedProg, qAdded, qLog, qMatched, qResult,
                                       \* replace_quest_by_name_smart: data now and at the
                                       \* call, exported_rows now and at the call,
                                       \* add_missing, position, the place of src in
                                       \* exported_rows, by_name, where qlist lives and
                                       \* whether there is a template, the three counters,
                                       \* the progress writes so far, the rows popped from
                                       \* by_name so far, the value returned

    tNode, tNode0, tSetter, tValue, tEnumType, tApply, tChanged,
                                       \* the typed setters of cheats.py: the node now and
                                       \* before the first call, which setter is called,
                                       \* value (enum_value), enum_type, apply, the values
                                       \* the calls so far returned

    pObj, pObj0, pPath, pVal, pPc, pOk, pAsked, pGot,
                                       \* _set and _get: obj now and at the call of _set,
                                       \* path, val, position, the value _set returned, the
                                       \* path _get was then called with and what it
                                       \* returned

    gData, gData0, gDryRun, gPc, gChanged,
                                       \* godmode: data now and at the call, dry_run,
                                       \* position, the count returned

    aCancelRequested, aThread, aWorker, aQuit, aQueue, aEmitted, aCalls, aStarted
                                       \* SaveSavAsync: _cancel_requested, whether _thread
                                       \* is set, where the worker thread is, whether its
                                       \* event loop was told to quit, the events queued
                                       \* for the object's own thread, the signals the
                                       \* object emitted, the calls made, the workers
                                       \* started

mergeVars    == <<mBase, mEdited, mOut, mPc>>
retargetVars == <<rCur, rPrefix, rLeaf, rCanon, rCount>>
saveVars     == <<sPc, sTarget, sTarget0, sTmp, sDebugCopy, sFailedCopy,
                  sEdited, sRc, sStdout, sBaseline, sMerged, sEncoded, sStderr, sError,
                  sProgress, sLog>>
discoverVars == <<dData, dPc, dFound, dRows>>
importVars   == <<qData, qData0, qImport, qImport0, qAddMissing, qPc, qIdx, qByName, qList,
                  qAppliedRows, qAppliedProg, qAdded, qLog, qMatched, qResult>>
setterVars   == <<tNode, tNode0, tSetter, tValue, tEnumType, tApply, tChanged>>
accessVars   == <<pObj, pObj0, pPath, pVal, pPc, pOk, pAsked, pGot>>
cheatVars    == <<gData, gData0, gDryRun, gPc, gChanged>>
asyncVars    == <<aCancelRequested, aThread, aWorker, aQuit, aQueue, aEmitted, aCalls, aStarted>>
vars == <<hashOrder, keyOrder, mergeVars, retargetVars, saveVars, discoverVars, importVars,
          setterVars, accessVars, cheatVars, asyncVars>>

notMerge    == <<hashOrder, keyOrder, retargetVars, saveVars, discoverVars, importVars,
                setterVars, accessVars, cheatVars, asyncVars>>
notRetarget == <<hashOrder, keyOrder, mergeVars, saveVars, discoverVars, importVars,
                setterVars, accessVars, cheatVars, asyncVars>>
notSave     == <<hashOrder, keyOrder, mergeVars, retargetVars, discoverVars, importVars,
                setterVars, accessVars, cheatVars, asyncVars>>
notDiscover == <<hashOrder, keyOrder, mergeVars, retargetVars, saveVars, importVars,
                setterVars, accessVars, cheatVars, asyncVars>>
notImport   == <<hashOrder, keyOrder, mergeVars, retargetVars, saveVars, discoverVars,
                setterVars, accessVars, cheatVars, asyncVars>>
notSetters  == <<hashOrder, keyOrder, mergeVars, retargetVars, saveVars, discoverVars,
                importVars, accessVars, cheatVars, asyncVars>>
notAccess   == <<hashOrder, keyOrder, mergeVars, retargetVars, saveVars, discoverVars,
                importVars, setterVars, cheatVars, asyncVars>>
notCheat    == <<hashOrder, keyOrder, mergeVars, retargetVars, saveVars, discoverVars,
                importVars, setterVars, accessVars, asyncVars>>
notAsync    == <<hashOrder, keyOrder, mergeVars, retargetVars, saveVars, discoverVars,
                importVars, setterVars, accessVars, cheatVars>>

\* a part of the program that a specification does not exercise stays as constructed
MergeIdle    == mBase = [k |-> "null"] /\ mEdited = [k |-> "null"] /\ mOut = [k |-> "null"] /\ mPc = "idle"
RetargetIdle == rCur = "" /\ rPrefix = "" /\ rLeaf = "" /\ rCanon = "" /\ rCount = 0
SaveIdle ==
    /\ sPc = "idle" /\ sTarget = [f |-> "absent"] /\ sTarget0 = [f |-> "absent"]
    /\ sTmp = [f |-> "absent"] /\ sDebugCopy = [f |-> "absent"] /\ sFailedCopy = [f |-> "absent"]
    /\ sEdited = [k |-> "null"] /\ sRc = -1 /\ sStdout = [out |-> "none"]
    /\ sBaseline = [k |-> "null"] /\ sMerged = [k |-> "null"]
    /\ sEncoded = [k |-> "null"] /\ sStderr = "" /\ sError = [type |-> "none"]
    /\ sProgress = 0 /\ sLog = <<>>
DiscoverIdle ==
    /\ dData = [k |-> "null"] /\ dPc = "idle"
    /\ dFound = [lst |-> [k |-> "null"], path |-> <<>>, how |-> ""]
    /\ dRows = [ok |-> TRUE, rows |-> <<>>, debug_meta |-> <<>>]
ImportIdle ==
    /\ qData = [k |-> "null"] /\ qData0 = [k |-> "null"]
    /\ qImport = [k |-> "null"] /\ qImport0 = [k |-> "null"]
    /\ qAddMissing = TRUE /\ qPc = "idle" /\ qIdx = 0 /\ qByName = <<>>
    /\ qList = [is_list |-> FALSE, path |-> <<>>, template |-> FALSE]
    /\ qAppliedRows = 0 /\ qAppliedProg = 0 /\ qAdded = 0 /\ qLog = <<>>
    /\ qMatched = <<>> /\ qResult = <<>>
SetterIdle ==
    /\ tNode = [k |-> "null"] /\ tNode0 = [k |-> "null"] /\ tSetter = "" /\ tValue = [k |-> "null"]
    /\ tEnumType = "" /\ tApply = FALSE /\ tChanged = <<>>
AccessIdle ==
    /\ pObj = [k |-> "null"] /\ pObj0 = [k |-> "null"] /\ pPath = <<>> /\ pVal = [k |-> "null"]
    /\ pPc = "idle" /\ pOk = FALSE /\ pAsked = <<>> /\ pGot = [k |-> "null"]
CheatIdle ==
    /\ gData = [k |-> "null"] /\ gData0 = [k |-> "null"] /\ gDryRun = FALSE /\ gPc = "idle"
    /\ gChanged = 0
AsyncIdle ==
    /\ aCancelRequested = FALSE /\ aThread = FALSE /\ aWorker = "none" /\ aQuit = FALSE
    /\ aQueue = <<>> /\ aEmitted = <<>> /\ aCalls = <<>> /\ aStarted = 0
\* one iteration order of _WRAPPER_KEYS, for the parts that never iterate over it
HashIdle ==
    /\ hashOrder = <<"struct", "data", "value", "tag">>
    /\ keyOrder = [state |-> FALSE, name |-> FALSE]

---------------------------------------------------------------------------
(* JSON values *)

JNull     == [k |-> "null"]
JBool(b)  == [k |-> "bool", b |-> b]
JInt(i)   == [k |-> "int", i |-> i]
JFloat(f) == [k |-> "float", f |-> f]      \* f: tenths, JFloat(15) is 1.5
JStr(s)   == [k |-> "str", s |-> s]
JList(l)  == [k |-> "list", l |-> l]
JDict(d)  == [k |-> "dict", d |-> d]

IsDict(x) == x.k = "dict"
IsList(x) == x.k = "list"
IsStr(x)  == x.k = "str"
\* isinstance(x, (str, int, float, bool)) or x is None
IsPrimitive(x) == x.k \in {"str", "int", "float", "bool", "null"}

Keys(x)        == {x.d[n][1] : n \in DOMAIN x.d}
HasKey(x, key) == \E n \in DOMAIN x.d : x.d[n][1] = key
Lookup(x, key) == x.d[CHOOSE n \in DOMAIN x.d : x.d[n][1] = key][2]

Min(a, b) == IF a <= b THEN a ELSE b

---------------------------------------------------------------------------
(* Python str operations *)

LowerAlpha == "abcdefghijklmnopqrstuvwxyz"
UpperAlpha == "ABCDEFGHIJKLMNOPQRSTUVWXYZ"
Digits     == "0123456789"
Whitespace == {" ", "\t", "\n", "\r"}

CharAt(s, n) == SubSeq(s, n, n)
\* the 1-based place of character c in alpha, 0 when it is not there
IndexIn(alpha, c) ==
    IF \E n \in 1..Len(alpha) : CharAt(alpha, n) = c
    THEN CHOOSE n \in 1..Len(alpha) : CharAt(alpha, n) = c
    ELSE 0

UpperChars == {CharAt(UpperAlpha, n) : n \in 1..Len(UpperAlpha)}
LowerChars == {CharAt(LowerAlpha, n) : n \in 1..Len(LowerAlpha)}
UpperOf == [c \in LowerChars |-> CharAt(UpperAlpha, IndexIn(LowerAlpha, c))]
LowerOf == [c \in UpperChars |-> CharAt(LowerAlpha, IndexIn(UpperAlpha, c))]

upper_char(c) == IF c \in LowerChars THEN UpperOf[c] ELSE c
lower_char(c) == IF c \in UpperChars THEN LowerOf[c] ELSE c

RECURSIVE str_upper(_)
str_upper(s) == IF s = "" THEN "" ELSE upper_char(Head(s)) \o str_upper(Tail(s))

RECURSIVE lower_chars(_)
lower_chars(s) == IF s = "" THEN "" ELSE lower_char(Head(s)) \o lower_chars(Tail(s))

\* the strings lowered over and over (the keys of the trees and the aliases
\* looked for), lowered once
LoweredOften ==
    { "root", "properties", "Array", "Struct", "value", "data", "tag", "Other",
      "QuestSaveData_0", "QuestList_0", "Spots_0", "A", "Quests",
      "QuestCodeName_0", "QuestName_0", "Name", "CodeName", "QuestId_0", "QuestID",
      "QuestState_0", "State", "QuestState", "ElQuestState", "EQuestState", "Quest_State_0",
      "String", "Str", "Value", "name", "Enum", "Int", "Gold",
      "Kills", "Parts", "Kills_0", "Parts_0", "kills", "Zed", "label", "sig", "path_abs",
      "Forge the Knife", "forge the knife", "FORGE THE KNIFE", "Forge_the-Knife",
      "New Quest", "new quest", "Q_FORGE" }
LowerMemo == [s \in LoweredOften |-> lower_chars(s)]

\* s.lower()
str_lower(s) ==
    LET Lowered(memo) == IF s \in DOMAIN memo THEN memo[s] ELSE lower_chars(s)
    IN  Lowered(LowerMemo)

RECURSIVE str_lstrip(_)
str_lstrip(s) == IF s # "" /\ Head(s) \in Whitespace THEN str_lstrip(Tail(s)) ELSE s

RECURSIVE str_rstrip(_)
str_rstrip(s) ==
    IF s # "" /\ CharAt(s, Len(s)) \in Whitespace
    THEN str_rstrip(SubSeq(s, 1, Len(s) - 1)) ELSE s

str_strip(s) == str_rstrip(str_lstrip(s))

RECURSIVE str_replace(_, _, _)
\* s.replace(old, new) for a non-empty old: leftmost, non-overlapping
str_replace(s, old, new) ==
    IF Len(s) < Len(old) THEN s
    ELSE IF SubSeq(s, 1, Len(old)) = old
         THEN new \o str_replace(SubSeq(s, Len(old) + 1, Len(s)), old, new)
         ELSE Head(s) \o str_replace(Tail(s), old, new)

\* s.find(sub): the lowest 0-based index of sub in s, -1 when absent
str_find(s, sub) ==
    LET hits == {n \in 1..(Len(s) - Len(sub) + 1) : SubSeq(s, n, n + Len(sub) - 1) = sub}
    IN  IF hits = {} THEN -1 ELSE (CHOOSE n \in hits : \A m \in hits : n <= m) - 1

str_endswith(s, suffix) ==
    Len(s) >= Len(suffix) /\ SubSeq(s, Len(s) - Len(suffix) + 1, Len(s)) = suffix

str_startswith(s, prefix) ==
    Len(s) >= Len(prefix) /\ SubSeq(s, 1, Len(prefix)) = prefix

str_contains(s, sub) == str_find(s, sub) # -1

---------------------------------------------------------------------------
(* mission.py: _norm_enum, _retarget_enum_like *)

norm_enum(s) ==
    str_upper(str_replace(str_replace(str_replace(str_strip(s), "::", "_"), "-", "_"), " ", "_"))

\* a plausible slip: the whole string is overwritten by the canonical value
retarget_overwrite(current, canonical) == norm_enum(canonical)

\* current and canonical are the str() of the raw arguments ("" for None)
retarget_enum_like(current, canonical) ==
    LET cur   == norm_enum(current)
        canon == norm_enum(canonical)
        i     == str_find(cur, "E_")
        head  == SubSeq(cur, 1, i)
        prefix == IF head # "" /\ ~str_endswith(head, "_") THEN head \o "_" ELSE head
    IN  IF i # -1 THEN prefix \o canon ELSE canon

---------------------------------------------------------------------------
(* Retargeting a stored state string *)

MaxRetargets == 2

CanonStates    == {"E_INACTIVE", "E_IN_PROGRESS", "E_COMPLETE_SUCCESS", "E_COMPLETE_FAIL"}
\* the literal prefixes save variants store the quest state with
StoredPrefixes == {"", "ELQUESTSTATE_", "ELQuestState::", "EQuestState::", "QS_", "Quest-State "}
\* stored values with no E_ marker
Unmarked       == {"Inactive", "In Progress", "", "2"}

InitRetarget ==
    /\ HashIdle /\ MergeIdle /\ SaveIdle /\ DiscoverIdle /\ ImportIdle /\ SetterIdle /\ AccessIdle /\ CheatIdle /\ AsyncIdle
    /\ \/ /\ rPrefix \in StoredPrefixes
          /\ \E st \in CanonStates : rCur = rPrefix \o st
       \/ /\ rPrefix = ""
          /\ rCur \in Unmarked
    /\ rLeaf = rCur
    /\ rCanon = ""
    /\ rCount = 0

\* val = _retarget_enum_like(cur_leaf, canon); _set(data, leaf_path, val)
ApplyRetarget ==
    /\ rCount < MaxRetargets
    /\ \E canon \in CanonStates :
          /\ rLeaf' = retarget_enum_like(rLeaf, canon)
          /\ rCanon' = canon
    /\ rCount' = rCount + 1
    /\ UNCHANGED <<rCur, rPrefix, notRetarget>>

NextRetarget == ApplyRetarget

SpecRetarget == InitRetarget /\ [][NextRetarget]_vars

\* C5: retarget returns the prefix of the current value, as the save stores
\* it, followed by the canonical suffix, and the canonical suffix alone when
\* there is no E_ marker or nothing before it.
\* In particular retarget("ELQUESTSTATE_E_IN_PROGRESS", "E_COMPLETE_SUCCESS") is
\* "ELQUESTSTATE_E_COMPLETE_SUCCESS".
C5_RetargetKeepsStoredPrefix ==
    rCount = 1 =>
        /\ rLeaf = rPrefix \o rCanon
        /\ (rCur = "ELQUESTSTATE_E_IN_PROGRESS" /\ rCanon = "E_COMPLETE_SUCCESS")
               => rLeaf = "ELQUESTSTATE_E_COMPLETE_SUCCESS"
        /\ (rCur = "E_INACTIVE" /\ rCanon = "E_COMPLETE_FAIL") => rLeaf = "E_COMPLETE_FAIL"

---------------------------------------------------------------------------
(* mission_tab.py: _to_save_state; MissionTab._apply_state_change *)

\* the enum suffix in the style the row's state is written in
to_save_state(existing_raw, enum_code) ==
    LET raw    == str_strip(existing_raw)
        code   == str_strip(enum_code)
        cut    == str_find(raw, "::")
        before == str_strip(SubSeq(raw, 1, cut))
        prefix == IF before # "" THEN before ELSE "ELQuestState"
    IN  IF code = "" THEN raw
        ELSE IF cut # -1 THEN prefix \o "::" \o code
        ELSE IF str_contains(str_upper(raw), "ELQUESTSTATE") THEN "ELQuestState::" \o code
        ELSE code

\* str(self._rows[row_idx].get("state") or ""): the state discover_quests
\* read, and after an edit the new_state the edit passed
RowState == IF rCount = 0 THEN rCur ELSE rCanon

\* the state combo of a row is set to a label: new_state is built from the
\* row's state, apply_quest_edit retargets the string leaf with it, and the
\* row remembers new_state
ApplyStateChange ==
    /\ rCount < MaxRetargets
    /\ \E enum_suffix \in CanonStates :
          \E new_state \in {to_save_state(RowState, enum_suffix)} :
              /\ rLeaf' = retarget_enum_like(rLeaf, norm_enum(new_state))
              /\ rCanon' = new_state
    /\ rCount' = rCount + 1
    /\ UNCHANGED <<rCur, rPrefix, notRetarget>>

NextStateChange == ApplyStateChange

SpecStateChange == InitRetarget /\ [][NextStateChange]_vars

\* C27: applying the same state edit a second time (same row, same new_state)
\* leaves the state leaf as the first application left it, and the stored
\* enum string is no longer than before.
C27_SameEditTwiceIsOnce ==
    [][(rCount = 1 /\ rCanon' = rCanon) => (rLeaf' = rLeaf /\ Len(rLeaf') <= Len(rLeaf))]_vars


---------------------------------------------------------------------------
(* mission.py: paths, _lkeys, _get, _set *)

\* a path token: a mapping key (str) or a 0-based sequence index (int)
Key(s) == [s |-> s]
Idx(n) == [i |-> n]
IsKeyTok(p) == "s" \in DOMAIN p
IsIdxTok(p) == "i" \in DOMAIN p

IsContainer(x) == x.k \in {"dict", "list"}

\* _lkeys(d): lower -> original key; of two keys with one lowered form the
\* later one wins
lkeys(d) ==
    LET Last(low, lower) == CHOOSE n \in DOMAIN low :
                                low[n] = lower /\ \A m \in DOMAIN low : low[m] = lower => m <= n
        Of(low) == [lower \in {low[n] : n \in DOMAIN low} |-> d.d[Last(low, lower)][1]]
    IN  Of([n \in DOMAIN d.d |-> str_lower(d.d[n][1])])

\* lower in lk, and lk[lower], for lk == lkeys(d)
lk_has(lk, lower) == lower \in DOMAIN lk
lk_get(lk, lower) == lk[lower]

\* d[key] = val for a key of d, in place
PutKey(d, key, val) ==
    JDict([n \in DOMAIN d.d |-> IF d.d[n][1] = key THEN <<key, val>> ELSE d.d[n]])

RECURSIVE get(_, _)
\* _get: None (JNull) when the path does not resolve
get(obj, path) ==
    LET Below(lk, low) ==
            IF lk_has(lk, low) THEN get(Lookup(obj, lk_get(lk, low)), Tail(path))
            ELSE get(JNull, Tail(path))
        Step(p) ==
            IF IsDict(obj) /\ IsKeyTok(p) THEN Below(lkeys(obj), str_lower(p.s))
            ELSE IF IsList(obj) /\ IsIdxTok(p)
            THEN IF 0 <= p.i /\ p.i < Len(obj.l) THEN get(obj.l[p.i + 1], Tail(path)) ELSE JNull
            ELSE JNull
    IN  IF path = <<>> THEN obj ELSE Step(Head(path))

SetFailed(cur) == [ok |-> FALSE, tree |-> cur]

\* a plausible slip: the last token is resolved case-sensitively, so a key
\* stored in another letter case gets a second entry
set_last_case_sensitive(cur, last, val) ==
    IF IsDict(cur) /\ IsKeyTok(last)
    THEN [ok |-> TRUE,
          tree |-> IF HasKey(cur, last.s) THEN PutKey(cur, last.s, val)
                   ELSE JDict(Append(cur.d, <<last.s, val>>))]
    ELSE IF IsList(cur) /\ IsIdxTok(last) /\ 0 <= last.i /\ last.i < Len(cur.l)
    THEN [ok |-> TRUE, tree |-> JList([cur.l EXCEPT ![last.i + 1] = val])]
    ELSE SetFailed(cur)

\* a plausible slip: an index one past the end appends, as a key that is
\* missing from a dict is added
set_last_growing(cur, last, val) ==
    LET Put(lk, low) ==
            IF lk_has(lk, low) THEN PutKey(cur, lk_get(lk, low), val)
            ELSE JDict(Append(cur.d, <<last.s, val>>))
    IN  IF IsDict(cur) /\ IsKeyTok(last)
        THEN [ok |-> TRUE, tree |-> Put(lkeys(cur), str_lower(last.s))]
        ELSE IF IsList(cur) /\ IsIdxTok(last) /\ 0 <= last.i /\ last.i < Len(cur.l)
        THEN [ok |-> TRUE, tree |-> JList([cur.l EXCEPT ![last.i + 1] = val])]
        ELSE IF IsList(cur) /\ IsIdxTok(last) /\ last.i = Len(cur.l)
        THEN [ok |-> TRUE, tree |-> JList(Append(cur.l, val))]
        ELSE SetFailed(cur)

\* _set, the write of the last token: cur[lk.get(last.lower(), last)] = val
\* in a dict, cur[last] = val at an index in range of a list
set_last(cur, last, val) ==
    LET Put(lk, low) ==
            IF lk_has(lk, low) THEN PutKey(cur, lk_get(lk, low), val)
            ELSE JDict(Append(cur.d, <<last.s, val>>))
    IN  IF IsDict(cur) /\ IsKeyTok(last)
        THEN [ok |-> TRUE, tree |-> Put(lkeys(cur), str_lower(last.s))]
        ELSE IF IsList(cur) /\ IsIdxTok(last) /\ 0 <= last.i /\ last.i < Len(cur.l)
        THEN [ok |-> TRUE, tree |-> JList([cur.l EXCEPT ![last.i + 1] = val])]
        ELSE SetFailed(cur)

RECURSIVE set_at(_, _, _)
\* _set below cur along a non-empty path: [ok, tree], the value returned and
\* the tree after the call
set_at(cur, path, val) ==
    LET InKey(key, r)  == [ok |-> r.ok, tree |-> PutKey(cur, key, r.tree)]
        ByKey(key, child) ==
            IF child = JNull THEN SetFailed(cur)
            ELSE InKey(key, set_at(child, Tail(path), val))
        Keyed(lk, low) ==
            IF lk_has(lk, low) THEN ByKey(lk_get(lk, low), Lookup(cur, lk_get(lk, low)))
            ELSE SetFailed(cur)
        InIdx(i, r) == [ok |-> r.ok, tree |-> JList([cur.l EXCEPT ![i + 1] = r.tree])]
        ByIdx(i, child) ==
            IF child = JNull THEN SetFailed(cur)
            ELSE InIdx(i, set_at(child, Tail(path), val))
        Step(p) ==
            IF Len(path) = 1 THEN set_last(cur, p, val)
            ELSE IF IsDict(cur) /\ IsKeyTok(p) THEN Keyed(lkeys(cur), str_lower(p.s))
            ELSE IF IsList(cur) /\ IsIdxTok(p)
            THEN IF 0 <= p.i /\ p.i < Len(cur.l) THEN ByIdx(p.i, cur.l[p.i + 1])
                 ELSE SetFailed(cur)
            ELSE SetFailed(cur)
    IN  Step(Head(path))

\* _set(obj, path, val)
set(obj, path, val) == IF path = <<>> THEN SetFailed(obj) ELSE set_at(obj, path, val)

---------------------------------------------------------------------------
(* mission.py: _unwrap, _unwrap_with_path *)

unwrap_max_depth == 12

\* the first wrapper key, in the iteration order of the set _WRAPPER_KEYS,
\* that cur has with a dict or list below it; 0 when there is none
wrapper_hit(cur, lk, order) ==
    LET First(hits) == IF hits = {} THEN 0 ELSE CHOOSE n \in hits : \A m \in hits : n <= m
    IN  First({n \in DOMAIN order :
                  lk_has(lk, order[n]) /\ IsContainer(Lookup(cur, lk_get(lk, order[n])))})

\* the child of cur at lk[lower], None where lk has no such key
LkChild(cur, lk, lower) == IF lk_has(lk, lower) THEN Lookup(cur, lk_get(lk, lower)) ELSE JNull

RECURSIVE unwrap_loop(_, _, _)
unwrap_loop(cur, depth, order) ==
    LET \* sv = a[alk["struct"]], for the dict a under the array key
        InStruct(a, alk, sv, svlk) ==
            IF IsDict(sv) /\ IsList(LkChild(sv, svlk, "value")) THEN LkChild(sv, svlk, "value")
            ELSE IF IsList(LkChild(a, alk, "value")) THEN LkChild(a, alk, "value")
            ELSE unwrap_loop(a, depth + 1, order)
        InArrayAt(a, alk, sv) == InStruct(a, alk, sv, IF IsDict(sv) THEN lkeys(sv) ELSE <<>>)
        InArray(a, alk) == InArrayAt(a, alk, LkChild(a, alk, "struct"))
        Wrapped(lk, w) ==
            IF w # 0 THEN unwrap_loop(Lookup(cur, lk_get(lk, order[w])), depth + 1, order)
            ELSE IF IsContainer(LkChild(cur, lk, "struct"))
            THEN unwrap_loop(LkChild(cur, lk, "struct"), depth + 1, order)
            ELSE cur
        Step(lk) ==
            IF IsDict(LkChild(cur, lk, "array")) THEN InArray(LkChild(cur, lk, "array"),
                                                              lkeys(LkChild(cur, lk, "array")))
            ELSE Wrapped(lk, wrapper_hit(cur, lk, order))
    IN  IF ~(depth < unwrap_max_depth /\ IsDict(cur)) THEN cur ELSE Step(lkeys(cur))

\* _unwrap(node)
unwrap(node) == unwrap_loop(node, 0, hashOrder)

RECURSIVE unwrap_with_path_loop(_, _, _, _)
\* [node, path]
unwrap_with_path_loop(cur, path, depth, order) ==
    LET InStruct(a, alk, pa, sv, svlk) ==
            IF IsDict(sv) /\ IsList(LkChild(sv, svlk, "value"))
            THEN [node |-> LkChild(sv, svlk, "value"),
                  path |-> pa \o <<Key(lk_get(alk, "struct")), Key(lk_get(svlk, "value"))>>]
            ELSE IF IsList(LkChild(a, alk, "value"))
            THEN [node |-> LkChild(a, alk, "value"), path |-> Append(pa, Key(lk_get(alk, "value")))]
            ELSE unwrap_with_path_loop(a, pa, depth + 1, order)
        InArrayAt(a, alk, pa, sv) ==
            InStruct(a, alk, pa, sv, IF IsDict(sv) THEN lkeys(sv) ELSE <<>>)
        InArray(a, alk, pa) == InArrayAt(a, alk, pa, LkChild(a, alk, "struct"))
        Into(key) == unwrap_with_path_loop(Lookup(cur, key), Append(path, Key(key)),
                                           depth + 1, order)
        Wrapped(lk, w) ==
            IF w # 0 THEN Into(lk_get(lk, order[w]))
            ELSE IF IsContainer(LkChild(cur, lk, "struct")) THEN Into(lk_get(lk, "struct"))
            ELSE [node |-> cur, path |-> path]
        Step(lk) ==
            IF IsDict(LkChild(cur, lk, "array"))
            THEN InArray(LkChild(cur, lk, "array"), lkeys(LkChild(cur, lk, "array")),
                         Append(path, Key(lk_get(lk, "array"))))
            ELSE Wrapped(lk, wrapper_hit(cur, lk, order))
    IN  IF ~(depth < unwrap_max_depth /\ IsDict(cur)) THEN [node |-> cur, path |-> path]
        ELSE Step(lkeys(cur))

\* _unwrap_with_path(node, base)
unwrap_with_path(node, base) == unwrap_with_path_loop(node, base, 0, hashOrder)

---------------------------------------------------------------------------
(* mission.py: locating the quest list *)

NoList(how) == [lst |-> JNull, path |-> <<>>, how |-> how]
Found(lst, path, how) == [lst |-> lst, path |-> path, how |-> how]

QuestRootKeys == <<"questsavedata_0", "questsavedata", "quest_save_data_0", "quest_save_data">>

\* dict.get(key): case-sensitive, None when absent
DictGet(d, key) == IF HasKey(d, key) THEN Lookup(d, key) ELSE JNull

\* the first of the aliases, in their order, that lk holds; 0 when none is
first_alias(lk, aliases) ==
    LET First(hits) == IF hits = {} THEN 0 ELSE CHOOSE n \in hits : \A m \in hits : n <= m
    IN  First({n \in DOMAIN aliases : lk_has(lk, aliases[n])})

\* _quest_root_dict(data): [qsd, qkey], qsd None when there is none
quest_root_dict(data) ==
    LET None == [qsd |-> JNull, qkey |-> ""]
        Under(props, lk, n) ==
            IF n = 0 THEN None
            ELSE [qsd  |-> Lookup(props, lk_get(lk, QuestRootKeys[n])),
                  qkey |-> lk_get(lk, QuestRootKeys[n])]
        In(props, lk) == Under(props, lk, first_alias(lk, QuestRootKeys))
        Props(props) == IF ~IsDict(props) THEN None ELSE In(props, lkeys(props))
        Root(root) == IF ~IsDict(root) THEN None ELSE Props(DictGet(root, "properties"))
    IN  Root(DictGet(data, "root"))

RECURSIVE descend_structs(_, _, _)
\* for _ in range(3): step through a Struct key holding a dict or list
descend_structs(cur, path, n) ==
    LET Step(lk) ==
            IF IsContainer(LkChild(cur, lk, "struct"))
            THEN descend_structs(LkChild(cur, lk, "struct"),
                                 Append(path, Key(lk_get(lk, "struct"))), n - 1)
            ELSE [node |-> cur, path |-> path]
    IN  IF n = 0 THEN [node |-> cur, path |-> path]
        ELSE IF IsDict(cur) THEN Step(lkeys(cur))
        ELSE descend_structs(cur, path, n - 1)

QuestListKeys == <<"questlist_0", "questlist", "quests", "storyquests">>

\* the quest-list hop: into the first of the aliases that is there, when it holds a dict
descend_quest_list(at) ==
    LET Into(lk, n) ==
            IF n # 0 /\ IsDict(LkChild(at.node, lk, QuestListKeys[n]))
            THEN [node |-> LkChild(at.node, lk, QuestListKeys[n]),
                  path |-> Append(at.path, Key(lk_get(lk, QuestListKeys[n])))]
            ELSE at
        Hop(lk) == Into(lk, first_alias(lk, QuestListKeys))
    IN  IF IsDict(at.node) THEN Hop(lkeys(at.node)) ELSE at

\* _find_quest_array_and_path_standard(data)
find_quest_array_and_path_standard(data) ==
    LET Generic(u, path) ==
            IF IsList(u) THEN Found(u, path, "generic unwrap") ELSE NoList("no list found")
        \* sv = a[alk["struct"]], for the dict a under the array key
        InStruct(q, a, alk, pa, sv, svlk) ==
            IF IsDict(sv) /\ IsList(LkChild(sv, svlk, "value"))
            THEN Found(LkChild(sv, svlk, "value"),
                       pa \o <<Key(lk_get(alk, "struct")), Key(lk_get(svlk, "value"))>>,
                       "Array.Struct.value")
            ELSE IF IsList(LkChild(a, alk, "value"))
            THEN Found(LkChild(a, alk, "value"), Append(pa, Key(lk_get(alk, "value"))),
                       "Array.value")
            ELSE Generic(unwrap(q.qsd), pa)
        InArrayAt(q, a, alk, pa, sv) ==
            InStruct(q, a, alk, pa, sv, IF IsDict(sv) THEN lkeys(sv) ELSE <<>>)
        InArray(q, a, alk, pa) == InArrayAt(q, a, alk, pa, LkChild(a, alk, "struct"))
        Array(q, cur, lk, path) ==
            IF IsDict(LkChild(cur, lk, "array"))
            THEN InArray(q, LkChild(cur, lk, "array"), lkeys(LkChild(cur, lk, "array")),
                         Append(path, Key(lk_get(lk, "array"))))
            ELSE Generic(unwrap(q.qsd), path)
        At(q, cur, path) ==
            IF IsDict(cur) THEN Array(q, cur, lkeys(cur), path) ELSE Generic(unwrap(q.qsd), path)
        Hop(q, at) == At(q, at.node, at.path)
        From(q) ==
            IF ~IsDict(q.qsd) THEN NoList("no root")
            ELSE Hop(q, descend_quest_list(
                            descend_structs(q.qsd, <<Key("root"), Key("properties"), Key(q.qkey)>>, 3)))
    IN  From(quest_root_dict(data))

StateLikeKeys == {"queststate_0", "state", "queststate", "equeststate", "quest_state_0"}
NameLikeKeys  == {"questcodename_0", "questname_0", "name", "codename", "questid_0", "questid"}

\* _deep_candidate_scan.looks_like_quest(elem)
looks_like_quest(elem) ==
    LET Has(lk) == \/ \E key \in StateLikeKeys : lk_has(lk, key)
                   \/ \E key \in NameLikeKeys : lk_has(lk, key)
        Like(e) == IsDict(e) /\ Has(lkeys(e))
    IN  Like(unwrap(elem))

RECURSIVE deep_walk(_, _)
RECURSIVE deep_walk_children(_, _, _)
\* _deep_candidate_scan.walk(n, p): the hits in the order they are appended
deep_walk(n, p) ==
    (IF IsList(n) /\ n.l # <<>> /\ looks_like_quest(n.l[1])
     THEN <<[path |-> p, lst |-> n]>> ELSE <<>>)
    \o (IF IsContainer(n) THEN deep_walk_children(n, p, 1) ELSE <<>>)

deep_walk_children(n, p, c) ==
    IF IsDict(n)
    THEN IF c > Len(n.d) THEN <<>>
         ELSE deep_walk(n.d[c][2], Append(p, Key(n.d[c][1]))) \o deep_walk_children(n, p, c + 1)
    ELSE IF c > Len(n.l) THEN <<>>
         ELSE deep_walk(n.l[c], Append(p, Idx(c - 1))) \o deep_walk_children(n, p, c + 1)

\* _deep_candidate_scan(node, base)
deep_candidate_scan(node, base) == deep_walk(node, base)

RECURSIVE insert_ascending(_, _)
insert_ascending(sorted, h) ==
    IF sorted = <<>> THEN <<h>>
    ELSE IF Len(Head(sorted).lst.l) <= Len(h.lst.l)
         THEN <<Head(sorted)>> \o insert_ascending(Tail(sorted), h)
         ELSE <<h>> \o sorted

RECURSIVE sort_ascending(_)
\* a plausible slip: reverse=True left out
sort_ascending(hits) ==
    IF hits = <<>> THEN <<>>
    ELSE insert_ascending(sort_ascending(SubSeq(hits, 1, Len(hits) - 1)), hits[Len(hits)])

RECURSIVE insert_by_len(_, _)
\* h after every element of sorted that is at least as long
insert_by_len(sorted, h) ==
    IF sorted = <<>> THEN <<h>>
    ELSE IF Len(Head(sorted).lst.l) >= Len(h.lst.l)
         THEN <<Head(sorted)>> \o insert_by_len(Tail(sorted), h)
         ELSE <<h>> \o sorted

RECURSIVE sort_by_len_desc(_)
\* candidates.sort(key=lambda t: len(t[1]), reverse=True): stable
sort_by_len_desc(hits) ==
    IF hits = <<>> THEN <<>>
    ELSE insert_by_len(sort_by_len_desc(SubSeq(hits, 1, Len(hits) - 1)), hits[Len(hits)])

\* _find_quest_array_and_path(data)
find_quest_array_and_path(data) ==
    LET Deep(root, candidates) ==
            IF ~IsDict(root) THEN NoList("no root")
            ELSE IF candidates # <<>> THEN Found(candidates[1].lst, candidates[1].path, "deep-scan")
            ELSE NoList("no list found")
        Pick(std, root) ==
            IF IsList(std.lst) /\ std.lst.l # <<>> THEN std
            ELSE Deep(root, sort_by_len_desc(deep_candidate_scan(root, <<Key("root")>>)))
    IN  Pick(find_quest_array_and_path_standard(data), DictGet(data, "root"))

---------------------------------------------------------------------------
(* Discovery of the quest list *)

MaxCand == 3

\* every iteration order of the four wrapper keys
HashOrders ==
    {o \in [1..4 -> {"struct", "data", "value", "tag"}] : \A a, b \in 1..4 : o[a] = o[b] => a = b}

QuestFields  == JDict(<< <<"QuestCodeName_0", JStr("Q")>>, <<"QuestState_0", JStr("E_INACTIVE")>> >>)
\* a property-shaped element: a tag descriptor beside the Struct payload
QuestTagged  == JDict(<< <<"tag", JDict(<< <<"data", JDict(<< <<"Other", JStr("StructProperty")>> >>)>> >>)>>,
                         <<"Struct", QuestFields>> >>)
NameOnlyElem == JDict(<< <<"Name", JStr("x")>> >>)
PlainElem    == JDict(<< <<"Gold", JInt(1)>> >>)

Repeat(e, n) == JList([c \in 1..n |-> e])
CandListsA   == {Repeat(e, n) : e \in {QuestFields, QuestTagged, NameOnlyElem}, n \in 0..MaxCand}
CandListsB   == {Repeat(e, n) : e \in {QuestFields, PlainElem}, n \in 0..MaxCand}

ArrayOf(lst) == JDict(<< <<"Array", JDict(<< <<"Struct", JDict(<< <<"value", lst>> >>)>> >>)>> >>)
\* the known path down to a list
KnownQuestData(lst) ==
    JDict(<< <<"Struct", JDict(<< <<"Struct", JDict(<< <<"QuestList_0", ArrayOf(lst)>> >>)>> >>)>> >>)

\* what root.properties holds at the known path: nothing, an empty list, a list
KnownVariants ==
    { <<>>,
      << <<"QuestSaveData_0", KnownQuestData(JList(<<>>))>> >>,
      << <<"QuestSaveData_0", KnownQuestData(JList(<<QuestFields>>))>> >> }

DiscoverTrees ==
    { JDict(<< <<"root", JDict(IF aFirst THEN << <<"A", a>>, <<"properties", JDict(kv \o << <<"Spots_0", ArrayOf(b)>> >>)>> >>
                                         ELSE << <<"properties", JDict(kv \o << <<"Spots_0", ArrayOf(b)>> >>)>>, <<"A", a>> >>)>> >>) :
        a \in CandListsA, b \in CandListsB, kv \in KnownVariants, aFirst \in BOOLEAN }

InitDiscover ==
    /\ hashOrder \in HashOrders
    /\ keyOrder = [state |-> FALSE, name |-> FALSE]
    /\ MergeIdle /\ RetargetIdle /\ SaveIdle /\ ImportIdle /\ SetterIdle /\ AccessIdle /\ CheatIdle /\ AsyncIdle
    /\ dData \in DiscoverTrees
    /\ dPc = "ready"
    /\ dFound = NoList("")
    /\ dRows = [ok |-> TRUE, rows |-> <<>>, debug_meta |-> <<>>]

\* lst, path, how = _find_quest_array_and_path(data)
Discover ==
    /\ dPc = "ready"
    /\ dFound' = find_quest_array_and_path(dData)
    /\ dPc' = "found"
    /\ UNCHANGED <<dData, dRows, notDiscover>>

NextDiscover == Discover

SpecDiscover == InitDiscover /\ [][NextDiscover]_vars

\* the known path yields no list or an empty list
KnownPathEmpty(data) ==
    LET std == find_quest_array_and_path_standard(data)
    IN  ~(IsList(std.lst) /\ std.lst.l # <<>>)

DeepHits(data) == deep_candidate_scan(DictGet(data, "root"), <<Key("root")>>)

\* C10: when the known path yields no list or an empty list, discovery
\* returns one of the deep-scan candidates and no candidate is longer than
\* it, whatever order the candidates are met in during the walk.
C10_DeepScanLongestWins ==
    (dPc = "found" /\ KnownPathEmpty(dData)) =>
        LET hits == DeepHits(dData) IN
        IF hits = <<>> THEN dFound.lst = JNull
        ELSE /\ dFound.how = "deep-scan"
             /\ \E n \in DOMAIN hits : hits[n].lst = dFound.lst /\ hits[n].path = dFound.path
             /\ \A n \in DOMAIN hits : Len(hits[n].lst.l) <= Len(dFound.lst.l)

\* the known path gave an empty list, the walk met a 1-element candidate
\* first and a longer one later, and the longer one was returned
C10_Witness ==
    /\ dPc = "found" /\ KnownPathEmpty(dData)
    /\ find_quest_array_and_path_standard(dData).lst = JList(<<>>)
    /\ LET hits == DeepHits(dData) IN
          /\ Len(hits) = 2
          /\ Len(hits[1].lst.l) = 1
          /\ Len(hits[2].lst.l) = MaxCand
          /\ dFound.lst = hits[2].lst

\* the unwrapped element is a dict holding a key of the given set, in any case
HoldsKeyOf(elem, keys) ==
    LET Held(e) == IsDict(e) /\ \E n \in DOMAIN e.d : str_lower(e.d[n][1]) \in keys
    IN  Held(unwrap(elem))

\* C11: a list returned by the deep scan is a candidate, and a candidate's
\* unwrapped first element holds at least one state-like key and at least one
\* name/code-like key: a list whose first element holds keys of only one of
\* the two sets is never returned by discovery.
C11_DeepScanNeedsBothKeys ==
    (dPc = "found" /\ dFound.how = "deep-scan") =>
        /\ HoldsKeyOf(dFound.lst.l[1], StateLikeKeys)
        /\ HoldsKeyOf(dFound.lst.l[1], NameLikeKeys)

---------------------------------------------------------------------------
(* file_manager.py: _merge_preserving_schema *)

RECURSIVE merge_preserving_schema(_, _)

\* the guard of the tagged-node branch
is_tagged_node(base) ==
    /\ IsDict(base)
    /\ HasKey(base, "tag")
    /\ HasKey(base, "value")
    /\ IsStr(Lookup(base, "tag"))

\* tagged node: merge into .value only, keep .tag from base
merge_tagged(base, edited) ==
    LET new_val == IF edited # JNull
                   THEN merge_preserving_schema(Lookup(base, "value"), edited)
                   ELSE Lookup(base, "value")
    IN  JDict(<< <<"tag", Lookup(base, "tag")>>, <<"value", new_val>> >>)

\* plain dicts: out = dict(base); only keys already in base are merged
merge_dict(base, edited) ==
    JDict([n \in DOMAIN base.d |->
            IF HasKey(edited, base.d[n][1])
            THEN <<base.d[n][1],
                   merge_preserving_schema(base.d[n][2], Lookup(edited, base.d[n][1]))>>
            ELSE base.d[n]])

\* a plausible slip: out = list(edited) instead of list(base)
merge_list_resized(base, edited) ==
    JList([n \in DOMAIN edited.l |->
            IF n <= Min(Len(base.l), Len(edited.l))
            THEN merge_preserving_schema(base.l[n], edited.l[n])
            ELSE edited.l[n]])

\* lists: out = list(base); merge index by index up to the shorter length
merge_list(base, edited) ==
    JList([n \in DOMAIN base.l |->
            IF n <= Min(Len(base.l), Len(edited.l))
            THEN merge_preserving_schema(base.l[n], edited.l[n])
            ELSE base.l[n]])

\* a plausible slip: isinstance(edited, type(base)), under which a bool is an int
merge_primitive_isinstance(base, edited) ==
    IF base = JNull \/ base.k = edited.k \/ (base.k = "int" /\ edited.k = "bool")
    THEN edited ELSE base

\* primitives: take edited if type(base) is type(edited) or base is None
merge_primitive(base, edited) ==
    IF base = JNull \/ base.k = edited.k THEN edited ELSE base

merge_preserving_schema(base, edited) ==
    IF is_tagged_node(base) THEN merge_tagged(base, edited)
    ELSE IF IsDict(base) /\ IsDict(edited) THEN merge_dict(base, edited)
    ELSE IF IsList(base) /\ IsList(edited) THEN merge_list(base, edited)
    ELSE IF IsPrimitive(base) /\ IsPrimitive(edited) THEN merge_primitive(base, edited)
    ELSE base

---------------------------------------------------------------------------
(* The trees the merge is run on *)

MaxLen == 2

MergeScalars == {JNull, JBool(TRUE), JInt(1), JInt(2), JStr("a"), JFloat(15)}
MergeCells   == {JInt(1), JInt(2), JStr("a")}
MergeLists   == UNION {{JList(l) : l \in [1..n -> MergeCells]} : n \in 0..MaxLen}

MergeKeyOrder == <<"tag", "value", "x">>
MergeKeyVals(key) == IF key = "tag" THEN {JStr("t"), JInt(1)} ELSE {JInt(1), JInt(2)}

RECURSIVE DictPairs(_, _, _)
\* the pairs of f in the order of keys[n..]
DictPairs(keys, n, f) ==
    IF n > Len(keys) THEN <<>>
    ELSE IF keys[n] \in DOMAIN f
         THEN <<<<keys[n], f[keys[n]]>>>> \o DictPairs(keys, n + 1, f)
         ELSE DictPairs(keys, n + 1, f)

MergeDicts ==
    {JDict(DictPairs(MergeKeyOrder, 1, f)) :
        f \in UNION {{g \in [S -> {JStr("t"), JInt(1), JInt(2)}] :
                          \A key \in S : g[key] \in MergeKeyVals(key)} :
                     S \in SUBSET {"tag", "value", "x"}}}

\* payloads put below a wrapper
MergeInner ==
    { JInt(1), JInt(2), JNull,
      JList(<<JInt(1)>>), JList(<<JInt(2), JStr("a")>>),
      JDict(<< <<"x", JInt(1)>> >>), JDict(<< <<"x", JInt(2)>>, <<"y", JInt(2)>> >>),
      JDict(<< <<"tag", JStr("t")>>, <<"value", JInt(1)>> >>),
      JDict(<< <<"tag", JStr("t")>>, <<"value", JInt(2)>> >>),
      JDict(<< <<"tag", JStr("t")>>, <<"value", JInt(2)>>, <<"x", JInt(2)>> >>) }

MergeNested ==
    UNION { { JDict(<< <<"tag", JStr("t")>>, <<"value", x>> >>),
              JDict(<< <<"x", x>> >>),
              JList(<<x>>) } : x \in MergeInner }

MergeTrees == MergeScalars \cup MergeLists \cup MergeDicts \cup MergeNested

---------------------------------------------------------------------------
(* Merge as a state machine *)

InitMerge ==
    /\ HashIdle /\ RetargetIdle /\ SaveIdle /\ DiscoverIdle /\ ImportIdle /\ SetterIdle /\ AccessIdle /\ CheatIdle /\ AsyncIdle
    /\ mBase \in MergeTrees
    /\ mEdited \in MergeTrees
    /\ mOut = JNull
    /\ mPc = "ready"

DoMerge ==
    /\ mPc = "ready"
    /\ mOut' = merge_preserving_schema(mBase, mEdited)
    /\ mPc' = "merged"
    /\ UNCHANGED <<mBase, mEdited, notMerge>>

NextMerge == DoMerge

SpecMerge == InitMerge /\ [][NextMerge]_vars

---------------------------------------------------------------------------
(* file_manager.py: FileManager.save_sav *)

Absent  == [f |-> "absent"]
OldSav  == [f |-> "old"]                     \* the target's content before the save
Partial == [f |-> "partial"]                 \* an incompletely written file
Sav(tree)  == [f |-> "sav", tree |-> tree]   \* uesave from-json's encoding of tree
Json(tree) == [f |-> "json", tree |-> tree]  \* _dumps_pretty(tree)

NoOutput   == [out |-> "none"]
Garbage    == [out |-> "garbage"]            \* bytes json.loads rejects
Text(tree) == [out |-> "json", tree |-> tree]

NoError == [type |-> "none"]
Raised(type, msg) == [type |-> type, msg |-> msg]

Stderrs == {"", "Error: bad magic\n"}

SaveBaselines ==
    { JDict(<< <<"root", JDict(<< <<"Gold", JInt(1)>>, <<"Items", JList(<<JInt(1)>>)>> >>)>> >>),
      JDict(<< <<"root", JDict(<< <<"tag", JStr("t")>>, <<"value", JInt(1)>> >>)>> >>),
      JDict(<< <<"root", JDict(<< <<"Stat", JDict(<< <<"tag", JStr("IntProperty")>>,
                                                     <<"value", JInt(1)>>, <<"Int", JInt(7)>> >>)>>,
                                 <<"Quests", JList(<<JStr("a")>>)>> >>)>> >>) }
SaveEdits ==
    { JDict(<< <<"root", JDict(<< <<"Gold", JInt(2)>>, <<"Items", JList(<<JInt(1), JInt(2)>>)>> >>)>> >>),
      JDict(<< <<"root", JDict(<< <<"tag", JStr("t")>>, <<"value", JInt(2)>> >>)>> >>),
      \* a quest appended by an import, a property created by a cheat
      JDict(<< <<"root", JDict(<< <<"Stat", JDict(<< <<"tag", JStr("IntProperty")>>,
                                                     <<"value", JInt(1)>>, <<"Int", JInt(9)>> >>)>>,
                                 <<"Quests", JList(<<JStr("a"), JStr("b")>>)>>,
                                 <<"Health", JDict(<< <<"Int", JInt(0)>> >>)>> >>)>> >>) }

\* a plausible slip: the return code of to-json is not looked at
to_json_failed_ignored(rc) == FALSE

\* if rc != 0: raise RuntimeError("to-json failed: ...")
to_json_failed(rc) == rc # 0

InitSave ==
    /\ HashIdle /\ MergeIdle /\ RetargetIdle /\ DiscoverIdle /\ ImportIdle /\ SetterIdle /\ AccessIdle /\ CheatIdle /\ AsyncIdle
    /\ sPc = "ensure_uesave_ok"
    /\ sTarget \in {Absent, OldSav}
    /\ sTarget0 = sTarget
    /\ sTmp \in {Absent, Partial}            \* a .sav.part left by an earlier failed save
    /\ sDebugCopy = Absent /\ sFailedCopy = Absent
    /\ sEdited \in SaveEdits
    /\ sRc = -1 /\ sStdout = NoOutput
    /\ sBaseline = JNull /\ sMerged = JNull /\ sEncoded = JNull
    /\ sStderr = "" /\ sError = NoError
    /\ sProgress = 0 /\ sLog = <<>>

\* exe, _ = ensure_uesave_ok(): raises when uesave cannot be run
EnsureUesave ==
    /\ sPc = "ensure_uesave_ok"
    /\ \E ok \in BOOLEAN :
          IF ok
          THEN sPc' = "baseline" /\ UNCHANGED sError
          ELSE /\ sPc' = "raised"
               /\ sError' = Raised("RuntimeError", "uesave not found/working: rc=1 stderr=")
    /\ UNCHANGED <<sTarget, sTarget0, sTmp, sDebugCopy, sFailedCopy, sEdited, sRc, sStdout,
                   sBaseline, sMerged, sEncoded, sStderr, sProgress, sLog, notSave>>

\* 1) ping(45); run to-json; raise on rc != 0; json.loads, raise on a parse error
FetchBaseline ==
    /\ sPc = "baseline"
    /\ sProgress' = 45
    /\ \E rc \in {0, 1}, out \in {Garbage} \cup {Text(t) : t \in SaveBaselines}, err \in Stderrs :
          /\ sRc' = rc /\ sStdout' = out /\ sStderr' = err
          /\ IF to_json_failed(rc)
             THEN /\ sPc' = "raised"
                  /\ sError' = Raised("RuntimeError", "to-json failed: " \o str_strip(err))
                  /\ sLog' = Append(sLog, "to-json")
                  /\ UNCHANGED sBaseline
             ELSE IF out = Garbage
             THEN /\ sPc' = "raised"
                  /\ sError' = Raised("RuntimeError",
                                      "baseline JSON parse failed: Expecting value: line 1 column 1 (char 0)")
                  /\ sLog' = Append(sLog, "to-json")
                  /\ UNCHANGED sBaseline
             ELSE /\ sPc' = "merge"
                  /\ sBaseline' = out.tree
                  /\ sLog' = sLog \o <<"to-json", "baseline">>
                  /\ UNCHANGED sError
    /\ UNCHANGED <<sTarget, sTarget0, sTmp, sDebugCopy, sFailedCopy, sEdited,
                   sMerged, sEncoded, notSave>>

\* _run(..., timeout=120) lets subprocess.TimeoutExpired through
FetchBaselineTimeout ==
    /\ sPc = "baseline"
    /\ sProgress' = 45
    /\ sPc' = "raised"
    /\ sError' = Raised("TimeoutExpired", "timed out after 120 seconds")
    /\ UNCHANGED <<sTarget, sTarget0, sTmp, sDebugCopy, sFailedCopy, sEdited, sRc, sStdout,
                   sBaseline, sMerged, sEncoded, sStderr, sLog, notSave>>

\* 2) ping(55); merged = _merge_preserving_schema(baseline, edited_data, "$")
MergeEdits ==
    /\ sPc = "merge"
    /\ sProgress' = 55
    /\ sMerged' = merge_preserving_schema(sBaseline, sEdited)
    /\ sLog' = Append(sLog, "merge")
    /\ sPc' = "debug_copy"
    /\ UNCHANGED <<sTarget, sTarget0, sTmp, sDebugCopy, sFailedCopy, sEdited, sRc, sStdout,
                   sBaseline, sEncoded, sStderr, sError, notSave>>

\* 3) dbg_dir.mkdir(...) is outside the try: its OSError propagates;
\*    pretty_copy.write_bytes(...) failing is swallowed
WriteDebugCopy ==
    /\ sPc = "debug_copy"
    /\ \E mkdir_ok \in BOOLEAN, write_ok \in BOOLEAN :
          IF ~mkdir_ok
          THEN /\ sPc' = "raised"
               /\ sError' = Raised("OSError", "mkdir")
               /\ UNCHANGED sDebugCopy
          ELSE /\ sPc' = "from_json"
               /\ sDebugCopy' = IF write_ok THEN Json(sMerged) ELSE Partial
               /\ UNCHANGED sError
    /\ UNCHANGED <<sTarget, sTarget0, sTmp, sFailedCopy, sEdited, sRc, sStdout, sBaseline,
                   sMerged, sEncoded, sStderr, sProgress, sLog, notSave>>

\* 4) ping(60); run from-json on the compact merged JSON; on rc != 0 write
\*    .failed.json (best effort) and raise the stderr text or "from-json failed"
FromJson ==
    /\ sPc = "from_json"
    /\ sProgress' = 60
    /\ sLog' = Append(sLog, "from-json")
    /\ \E rc \in {0, 1}, err \in Stderrs, copy_ok \in BOOLEAN :
          /\ sStderr' = err
          /\ IF rc # 0
             THEN /\ sFailedCopy' = IF copy_ok THEN Json(sMerged) ELSE Partial
                  /\ sPc' = "raised"
                  /\ sError' = Raised("RuntimeError",
                                      IF str_strip(err) # "" THEN str_strip(err)
                                                             ELSE "from-json failed")
                  /\ UNCHANGED sEncoded
             ELSE /\ sEncoded' = Sav(sMerged)
                  /\ sPc' = "write_tmp"
                  /\ UNCHANGED <<sFailedCopy, sError>>
    /\ UNCHANGED <<sTarget, sTarget0, sTmp, sDebugCopy, sEdited, sRc, sStdout, sBaseline,
                   sMerged, notSave>>

FromJsonTimeout ==
    /\ sPc = "from_json"
    /\ sProgress' = 60
    /\ sLog' = Append(sLog, "from-json")
    /\ sPc' = "raised"
    /\ sError' = Raised("TimeoutExpired", "timed out after 180 seconds")
    /\ UNCHANGED <<sTarget, sTarget0, sTmp, sDebugCopy, sFailedCopy, sEdited, sRc, sStdout,
                   sBaseline, sMerged, sEncoded, sStderr, notSave>>

\* 5) with open(tmp_out, "wb") as f: f.write(out)
WriteTmp ==
    /\ sPc = "write_tmp"
    /\ \E ok \in BOOLEAN :
          IF ok
          THEN sTmp' = sEncoded /\ sPc' = "unlink" /\ UNCHANGED sError
          ELSE sTmp' = Partial /\ sPc' = "raised" /\ sError' = Raised("OSError", "write")
    /\ UNCHANGED <<sTarget, sTarget0, sDebugCopy, sFailedCopy, sEdited, sRc, sStdout,
                   sBaseline, sMerged, sEncoded, sStderr, sProgress, sLog, notSave>>

\*    if final.exists(): final.unlink(missing_ok=True)
UnlinkTarget ==
    /\ sPc = "unlink"
    /\ \E ok \in BOOLEAN :
          IF sTarget = Absent \/ ok
          THEN sTarget' = Absent /\ sPc' = "move" /\ UNCHANGED sError
          ELSE sPc' = "raised" /\ sError' = Raised("OSError", "unlink") /\ UNCHANGED sTarget
    /\ UNCHANGED <<sTarget0, sTmp, sDebugCopy, sFailedCopy, sEdited, sRc, sStdout,
                   sBaseline, sMerged, sEncoded, sStderr, sProgress, sLog, notSave>>

\*    shutil.move(tmp_out, final); ping(100); return str(final)
MoveIntoPlace ==
    /\ sPc = "move"
    /\ \E ok \in BOOLEAN :
          IF ok
          THEN /\ sTarget' = sTmp /\ sTmp' = Absent
               /\ sProgress' = 100 /\ sPc' = "returned" /\ UNCHANGED sError
          ELSE /\ sPc' = "raised" /\ sError' = Raised("OSError", "move")
               /\ UNCHANGED <<sTarget, sTmp, sProgress>>
    /\ UNCHANGED <<sTarget0, sDebugCopy, sFailedCopy, sEdited, sRc, sStdout,
                   sBaseline, sMerged, sEncoded, sStderr, sLog, notSave>>

NextSave ==
    \/ EnsureUesave
    \/ FetchBaseline
    \/ FetchBaselineTimeout
    \/ MergeEdits
    \/ WriteDebugCopy
    \/ FromJson
    \/ FromJsonTimeout
    \/ WriteTmp
    \/ UnlinkTarget
    \/ MoveIntoPlace

SpecSave == InitSave /\ [][NextSave]_vars

---------------------------------------------------------------------------
(* Properties of save_sav *)

\* C8: at every step of save_sav, failures included, a target that existed
\* before the save holds its complete previous content or the complete new
\* encoder output: it is never missing and never partially written.
C8_TargetNeverMissing ==
    sTarget0 # Absent =>
        \/ sTarget = sTarget0
        \/ sTarget.f = "sav" /\ sTarget = sEncoded

Before(log, a, b) ==
    \A n \in DOMAIN log : log[n] = b => \E m \in 1..(n - 1) : log[m] = a

\* the baseline decode exited non-zero, or its output could not be parsed
DecodeFailed == sRc > 0 \/ (sRc = 0 /\ sStdout = Garbage)

\* C9: the baseline decode completes before the merge starts and the merge
\* before the encoder is invoked; when the decode exits non-zero or its output
\* cannot be parsed, neither the merge nor the encoder runs, the failure is
\* raised with the captured diagnostic text and the target is not touched.
C9_SaveOrdering ==
    /\ Before(sLog, "baseline", "merge")
    /\ Before(sLog, "to-json", "baseline")
    /\ Before(sLog, "merge", "from-json")
    /\ DecodeFailed =>
          /\ \A n \in DOMAIN sLog : sLog[n] \notin {"baseline", "merge", "from-json"}
          /\ sMerged = JNull /\ sEncoded = JNull
          /\ sPc = "raised"
          /\ sError.type = "RuntimeError"
          /\ sRc > 0 => sError.msg = "to-json failed: " \o str_strip(sStderr)
          /\ sRc = 0 => str_startswith(sError.msg, "baseline JSON parse failed: ")
          /\ sTarget = sTarget0

\* a decode that exited non-zero with text on stderr was raised to the caller
C9_Witness ==
    /\ sPc = "raised" /\ sRc > 0 /\ sStderr # ""
    /\ sTarget0 = OldSav
    /\ str_contains(sError.msg, "bad magic")

---------------------------------------------------------------------------
(* Properties of the merge *)

RECURSIVE SameKeySets(_, _)
\* out has base's key set at base's every mapping position
SameKeySets(base, out) ==
    IF IsDict(base)
    THEN /\ IsDict(out)
         /\ Keys(out) = Keys(base)
         /\ \A key \in Keys(base) : SameKeySets(Lookup(base, key), Lookup(out, key))
    ELSE IF IsList(base)
    THEN /\ IsList(out)
         /\ \A n \in DOMAIN base.l \cap DOMAIN out.l : SameKeySets(base.l[n], out.l[n])
    ELSE TRUE

\* C1: for mappings baseline and edited, the merged tree has exactly
\* baseline's key set at the top level and at every nested mapping position.
C1_MergeKeepsKeySets ==
    (mPc = "merged" /\ IsDict(mBase) /\ IsDict(mEdited)) => SameKeySets(mBase, mOut)

\* C2: for sequences baseline and edited of any relative lengths the merged
\* sequence has baseline's length, keeps baseline's own elements at the
\* indices edited does not reach, and drops edited's extra elements.
C2_MergeKeepsListLength ==
    (mPc = "merged" /\ IsList(mBase) /\ IsList(mEdited)) =>
        /\ IsList(mOut)
        /\ Len(mOut.l) = Len(mBase.l)
        /\ \A n \in DOMAIN mBase.l : n > Len(mEdited.l) => mOut.l[n] = mBase.l[n]

\* a longer edited list was merged onto a non-empty baseline list and changed it
C2_Witness ==
    /\ mPc = "merged" /\ IsList(mBase) /\ IsList(mEdited)
    /\ 0 < Len(mBase.l) /\ Len(mBase.l) < Len(mEdited.l)
    /\ mOut # mBase

\* C3: for a tagged baseline node {tag: t, value: p} the result is
\* {tag: t, value: merge(p, v)} with v the value sub-field of the edited
\* counterpart, so an edit of the tagged node's value appears in the result.
C3_TaggedMergeUsesEditedValue ==
    (mPc = "merged" /\ is_tagged_node(mBase) /\ IsDict(mEdited) /\ HasKey(mEdited, "value")) =>
        mOut = JDict(<< <<"tag", Lookup(mBase, "tag")>>,
                        <<"value", merge_preserving_schema(Lookup(mBase, "value"),
                                                           Lookup(mEdited, "value"))>> >>)

\* C4: at a scalar position the merge returns the edited value iff baseline
\* is null or the edited value has exactly baseline's type, else baseline; a
\* bool or a str never replaces an int, a null never replaces a non-null.
C4_ScalarTypeRule ==
    (mPc = "merged" /\ IsPrimitive(mBase) /\ IsPrimitive(mEdited)) =>
        /\ (mBase.k = "null" \/ mEdited.k = mBase.k) => mOut = mEdited
        /\ ~(mBase.k = "null" \/ mEdited.k = mBase.k) => mOut = mBase
        /\ (mBase.k = "int" /\ mEdited.k \in {"bool", "str"}) => mOut = mBase
        /\ (mBase.k # "null" /\ mEdited.k = "null") => mOut = mBase

\* an int was replaced by another int
C4_Witness ==
    mPc = "merged" /\ mBase = JInt(1) /\ mEdited = JInt(2) /\ mOut = JInt(2)

---------------------------------------------------------------------------
(* mission.py: conversions used by discovery and import *)

DigitChars == {CharAt(Digits, n) : n \in 1..Len(Digits)}

RECURSIVE nat_str(_)
\* str(n) of an int n >= 0
nat_str(n) ==
    IF n < 10 THEN CharAt(Digits, n + 1)
    ELSE nat_str(n \div 10) \o CharAt(Digits, (n % 10) + 1)

\* str(n) of an int
int_str(n) == IF n < 0 THEN "-" \o nat_str(-n) ELSE nat_str(n)

\* str(tok) of a path token
tok_str(t) == IF IsKeyTok(t) THEN t.s ELSE int_str(t.i)

\* s.isdigit()
str_isdigit(s) == s # "" /\ \A n \in 1..Len(s) : CharAt(s, n) \in DigitChars

RECURSIVE digits_value(_)
\* the number a string of decimal digits denotes
digits_value(s) ==
    IF s = "" THEN 0
    ELSE 10 * digits_value(SubSeq(s, 1, Len(s) - 1)) + (IndexIn(Digits, CharAt(s, Len(s))) - 1)

\* str(x) of a scalar (the labels and signatures of import records)
py_str(x) ==
    CASE x.k = "str"   -> x.s
      [] x.k = "int"   -> int_str(x.i)
      [] x.k = "bool"  -> IF x.b THEN "True" ELSE "False"
      [] x.k = "null"  -> "None"
      [] x.k = "float" -> (IF x.f < 0 THEN "-" ELSE "")
                          \o nat_str((IF x.f < 0 THEN -x.f ELSE x.f) \div 10) \o "."
                          \o nat_str((IF x.f < 0 THEN -x.f ELSE x.f) % 10)

IntFailed == [ok |-> FALSE, v |-> 0]
IntOk(n)  == [ok |-> TRUE, v |-> n]

\* int(x): [ok, v]; ok is FALSE where int() raises (None, a container, a string
\* that is not an optionally signed run of digits with optional white space
\* around it); a float is truncated toward zero
py_int(x) ==
    CASE x.k = "int"   -> IntOk(x.i)
      [] x.k = "bool"  -> IntOk(IF x.b THEN 1 ELSE 0)
      [] x.k = "float" -> IntOk(IF x.f < 0 THEN -((-x.f) \div 10) ELSE x.f \div 10)
      [] x.k = "str"   ->
            LET s    == str_strip(x.s)
                sign == s # "" /\ Head(s) \in {"+", "-"}
                body == IF sign THEN Tail(s) ELSE s
            IN  IF str_isdigit(body)
                THEN IntOk(IF sign /\ Head(s) = "-" THEN -digits_value(body) ELSE digits_value(body))
                ELSE IntFailed
      [] OTHER         -> IntFailed

\* _is_intlike(x)
is_intlike(x) ==
    CASE x.k = "bool" -> FALSE
      [] x.k = "int"  -> TRUE
      [] x.k = "str"  ->
            LET s    == str_strip(x.s)
                body == IF str_startswith(s, "+") \/ str_startswith(s, "-") THEN Tail(s) ELSE s
            IN  str_isdigit(body)
      [] OTHER        -> FALSE

\* string.punctuation + " _\t\r\n", the characters _punct_tbl deletes (the grave
\* accent, which a TLA+ string cannot hold, is in no string of the model)
Punctuation == "!#$%&'()*+,-./:;<=>?@[]^_{|}~"
PunctChars ==
    {CharAt(Punctuation, n) : n \in 1..Len(Punctuation)} \cup {"\"", "\\", " ", "\t", "\r", "\n"}

RECURSIVE str_delete(_, _)
\* s.translate(tbl) for a table that only deletes
str_delete(s, chars) ==
    IF s = "" THEN ""
    ELSE IF Head(s) \in chars THEN str_delete(Tail(s), chars)
         ELSE Head(s) \o str_delete(Tail(s), chars)

\* _norm_name(s)
norm_name(s) == str_delete(str_lower(str_strip(s)), PunctChars)

---------------------------------------------------------------------------
(* mission.py: name, state and progress helpers *)

STATE_KEYS == <<"QuestState_0", "State", "QuestState", "ElQuestState", "EQuestState", "Quest_State_0">>
NAME_KEYS  == <<"QuestCodeName_0", "QuestName_0", "Name", "CodeName", "QuestId_0", "QuestID">>

Reverse(seq) == [n \in 1..Len(seq) |-> seq[Len(seq) + 1 - n]]

\* names_lc = {n.lower() for n in names} in the order this process iterates
\* over it: a set of str has no fixed order, and of the orders the model
\* keeps two, which between them put either of two keys first
names_lc(names, rev) ==
    LET lowered == [n \in 1..Len(names) |-> str_lower(names[n])]
    IN  IF rev THEN Reverse(lowered) ELSE lowered

\* an Optional[List]: None, or a path (an empty path is falsy as None is)
NoPath       == [found |-> FALSE, path |-> <<>>]
PathOf(path) == [found |-> TRUE, path |-> path]
Truthy(op)   == op.found /\ op.path # <<>>

\* the (value, path) pairs a DFS pushes for the children of cur, in order
Children(cur, p) ==
    IF IsDict(cur)
    THEN [n \in 1..Len(cur.d) |-> [n |-> cur.d[n][2], p |-> Append(p, Key(cur.d[n][1]))]]
    ELSE IF IsList(cur)
    THEN [n \in 1..Len(cur.l) |-> [n |-> cur.l[n], p |-> Append(p, Idx(n - 1))]]
    ELSE <<>>

RECURSIVE dfs_find_key_loop(_, _)
\* the while loop of _dfs_find_key: the stack is popped at its end
dfs_find_key_loop(stack, wants) ==
    LET Rest(cur, p) ==
            dfs_find_key_loop(SubSeq(stack, 1, Len(stack) - 1) \o Children(cur, p), wants)
        Want(cur, p, lk, w) ==
            IF w # 0 THEN PathOf(Append(p, Key(lk_get(lk, wants[w])))) ELSE Rest(cur, p)
        Pop(cur, p) ==
            IF IsDict(cur) THEN Want(cur, p, lkeys(cur), first_alias(lkeys(cur), wants))
            ELSE Rest(cur, p)
    IN  IF stack = <<>> THEN NoPath
        ELSE Pop(stack[Len(stack)].n, stack[Len(stack)].p)

\* _dfs_find_key(node, names), wants being names_lc in iteration order
dfs_find_key(node, wants) == dfs_find_key_loop(<<[n |-> node, p |-> <<>>]>>, wants)

RECURSIVE dfs_find_enum_value_loop(_)
dfs_find_enum_value_loop(stack) ==
    IF stack = <<>> THEN NoPath
    ELSE LET cur  == stack[Len(stack)].n
             p    == stack[Len(stack)].p
             rest == SubSeq(stack, 1, Len(stack) - 1)
         IN  IF IsDict(cur) \/ IsList(cur)
             THEN dfs_find_enum_value_loop(rest \o Children(cur, p))
             ELSE IF IsStr(cur) /\ (str_contains(cur.s, "QuestState::") \/ str_startswith(cur.s, "E_"))
             THEN PathOf(p)
             ELSE dfs_find_enum_value_loop(rest)

\* _dfs_find_enum_value(node)
dfs_find_enum_value(node) == dfs_find_enum_value_loop(<<[n |-> node, p |-> <<>>]>>)

\* an Optional[str]
NoString    == [found |-> FALSE, s |-> ""]
StringOf(s) == [found |-> TRUE, s |-> s]

FirstStringKeys == <<"Name", "String", "Str", "Value", "name", "value">>

RECURSIVE first_string(_, _)
RECURSIVE first_string_in(_, _, _)
\* the first value of vals, from place n on, that _first_string finds a string in
first_string_in(vals, n, depth) ==
    IF n > Len(vals) THEN NoString
    ELSE LET s == first_string(vals[n], depth)
         IN  IF s.found THEN s ELSE first_string_in(vals, n + 1, depth)

\* _first_string(node, depth)
first_string(node, depth) ==
    LET Keyed(lk, hits) ==
            IF hits # {}
            THEN StringOf(LkChild(node, lk, str_lower(
                     FirstStringKeys[CHOOSE a \in hits : \A b \in hits : a <= b])).s)
            ELSE first_string_in([n \in 1..Len(node.d) |-> node.d[n][2]], 1, depth - 1)
        InDict(lk) ==
            Keyed(lk, {a \in 1..Len(FirstStringKeys) :
                          IsStr(LkChild(node, lk, str_lower(FirstStringKeys[a])))})
    IN  IF depth <= 0 THEN NoString
        ELSE IF IsStr(node) THEN StringOf(node.s)
        ELSE IF IsDict(node) THEN InDict(lkeys(node))
        ELSE IF IsList(node) THEN first_string_in(node.l, 1, depth - 1)
        ELSE NoString

\* _coerce_name(val)
coerce_name(val) ==
    IF IsStr(val) THEN val.s
    ELSE LET s == first_string(val, 8) IN IF s.found THEN s.s ELSE ""

\* _extract_state_value(node)
extract_state_value(node) ==
    LET ByKey(lk) ==
            IF lk_has(lk, "enum") /\ LkChild(node, lk, "enum").k \in {"str", "int", "bool"}
            THEN LkChild(node, lk, "enum")
            ELSE IF lk_has(lk, "name") /\ LkChild(node, lk, "name").k \in {"str", "int", "bool"}
            THEN LkChild(node, lk, "name")
            ELSE node
    IN  IF IsDict(node) THEN ByKey(lkeys(node)) ELSE node

LabelSkip == {"Array", "Struct", "value", "Value", "Int", "Int32", "Int64"}

RECURSIVE join(_, _)
\* sep.join(parts)
join(parts, sep) ==
    IF parts = <<>> THEN ""
    ELSE IF Len(parts) = 1 THEN parts[1]
    ELSE parts[1] \o sep \o join(Tail(parts), sep)

LastN(seq, n) == IF Len(seq) <= n THEN seq ELSE SubSeq(seq, Len(seq) - n + 1, Len(seq))

RECURSIVE label_fold(_, _)
\* the loop over parts in _pretty_label_from_path: [ok, out]; ok is FALSE
\* where out[-1] is read from an empty out (IndexError)
label_fold(parts, out) ==
    IF parts = <<>> THEN [ok |-> TRUE, out |-> out]
    ELSE IF str_isdigit(Head(parts))
    THEN IF out = <<>> THEN [ok |-> FALSE, out |-> out]
         ELSE label_fold(Tail(parts),
                         [out EXCEPT ![Len(out)] = out[Len(out)] \o "[" \o Head(parts) \o "]"])
    ELSE label_fold(Tail(parts), Append(out, Head(parts)))

\* _pretty_label_from_path(path): [ok, s], ok FALSE where it raises
pretty_label_from_path(path) ==
    LET strs  == [n \in 1..Len(path) |-> tok_str(path[n])]
        parts == SelectSeq(strs, LAMBDA t : t \notin LabelSkip)
        r     == label_fold(LastN(parts, 3), <<>>)
    IN  IF parts = <<>> THEN [ok |-> TRUE, s |-> "value"]
        ELSE [ok |-> r.ok, s |-> join(r.out, ".")]

\* _path_sig(path)
path_sig(path) ==
    LET last == LastN(path, 2)
    IN  str_lower(join([n \in 1..Len(last) |-> tok_str(last[n])], "/"))

RECURSIVE progress_leaves(_, _)
RECURSIVE progress_leaves_children(_, _, _, _)
\* walk(n, rel) in _collect_progress_objects: the int-like leaves in walk order
progress_leaves(n, rel) ==
    IF IsDict(n) THEN progress_leaves_children(n, lkeys(n), rel, 1)
    ELSE IF IsList(n) THEN progress_leaves_children(n, <<>>, rel, 1)
    ELSE IF is_intlike(n) THEN <<[rel |-> rel, leaf |-> n]>>
    ELSE <<>>

\* the loop over the children of n from place c on, lk being _lkeys(n) of a dict
progress_leaves_children(n, lk, rel, c) ==
    IF IsDict(n)
    THEN IF c > Len(n.d) THEN <<>>
         ELSE progress_leaves(n.d[c][2], Append(rel, Key(lk_get(lk, str_lower(n.d[c][1])))))
              \o progress_leaves_children(n, lk, rel, c + 1)
    ELSE IF c > Len(n.l) THEN <<>>
         ELSE progress_leaves(n.l[c], Append(rel, Idx(c - 1)))
              \o progress_leaves_children(n, lk, rel, c + 1)

\* int(n) if isinstance(n, str) and n.strip().isdigit() else n
leaf_value(n) ==
    IF IsStr(n) /\ str_isdigit(str_strip(n.s)) THEN JInt(digits_value(str_strip(n.s))) ELSE n

\* _collect_progress_objects(node): [ok, objs], ok FALSE where a label raises
collect_progress_objects(node) ==
    LET Labelled(leaves, labels) ==
            [ok   |-> \A n \in 1..Len(leaves) : labels[n].ok,
             objs |-> [n \in 1..Len(leaves) |->
                          [rel   |-> leaves[n].rel,
                           label |-> labels[n].s,
                           value |-> leaf_value(leaves[n].leaf)]]]
        Collected(leaves) ==
            Labelled(leaves, [n \in 1..Len(leaves) |-> pretty_label_from_path(leaves[n].rel)])
    IN  Collected(progress_leaves(unwrap(node), <<>>))

---------------------------------------------------------------------------
(* mission.py: discover_quests *)

\* the body of the loop of discover_quests for the element at elem_path:
\* [ok, row], ok FALSE where a label raises
discover_row(raw_elem, elem_path) ==
    LET Row(u, state_p_rel, raw_state, name, collected) ==
            [ok  |-> collected.ok,
             row |-> [name             |-> name,
                      state            |-> IF raw_state # JNull THEN raw_state ELSE JStr("Inactive"),
                      state_path_abs   |-> IF Truthy(state_p_rel)
                                           THEN PathOf(u.path \o state_p_rel.path) ELSE NoPath,
                      progress_objects |->
                          [n \in 1..Len(collected.objs) |->
                              [path_abs |-> u.path \o collected.objs[n].rel,
                               label    |-> collected.objs[n].label,
                               sig      |-> path_sig(u.path \o collected.objs[n].rel),
                               value    |-> collected.objs[n].value]],
                      elem_base_abs    |-> u.path]]
        \* _coerce_name(raw_name) or _coerce_name(node)
        NameOr(coerced, node) == IF coerced # "" THEN coerced ELSE coerce_name(node)
        Named(node, name_p_rel) ==
            NameOr(coerce_name(IF Truthy(name_p_rel) THEN get(node, name_p_rel.path) ELSE JNull),
                   node)
        At(u, state_p_rel) ==
            Row(u, state_p_rel,
                IF Truthy(state_p_rel) THEN extract_state_value(get(u.node, state_p_rel.path))
                ELSE JStr("Inactive"),
                Named(u.node, dfs_find_key(u.node, names_lc(NAME_KEYS, keyOrder.name))),
                collect_progress_objects(u.node))
        \* _dfs_find_key(node, _STATE_KEYS) or _dfs_find_enum_value(node)
        StateOr(u, by_key) == At(u, IF Truthy(by_key) THEN by_key ELSE dfs_find_enum_value(u.node))
        Unwrapped(u) == StateOr(u, dfs_find_key(u.node, names_lc(STATE_KEYS, keyOrder.state)))
    IN  Unwrapped(unwrap_with_path(raw_elem, elem_path))

\* discover_quests(data): [ok, rows, debug_meta], ok FALSE where it raises
discover_quests(data) ==
    LET Rows(found, each) ==
            [ok   |-> \A n \in 1..Len(each) : each[n].ok,
             rows |-> [n \in 1..Len(each) |-> each[n].row],
             debug_meta |->
                 <<[where |-> join([n \in 1..Len(found.path) |-> tok_str(found.path[n])], ".")
                              \o "  (" \o found.how \o ")",
                    count |-> Len(found.lst.l)]>>]
        Over(found) ==
            IF ~IsList(found.lst) THEN [ok |-> TRUE, rows |-> <<>>, debug_meta |-> <<>>]
            ELSE Rows(found, [n \in 1..Len(found.lst.l) |->
                                 discover_row(found.lst.l[n], Append(found.path, Idx(n - 1)))])
    IN  Over(find_quest_array_and_path(data))

---------------------------------------------------------------------------
(* mission.py: edits *)

\* _state_leaf_path(obj, path)
state_leaf_path(obj, path) ==
    LET ByKey(lk) ==
            IF lk_has(lk, "enum") THEN Append(path, Key(lk_get(lk, "enum")))
            ELSE IF lk_has(lk, "name") THEN Append(path, Key(lk_get(lk, "name")))
            ELSE path
        Leaf(cur) == IF IsDict(cur) THEN ByKey(lkeys(cur)) ELSE path
    IN  Leaf(get(obj, path))

\* "" if x is None else str(x)
str_or_empty(x) == IF x = JNull THEN "" ELSE py_str(x)

\* isinstance(x, int): bool is a subclass of int
IsIntInstance(x) == x.k \in {"int", "bool"}

RECURSIVE int_walk(_, _, _, _)
RECURSIVE int_walk_dict(_, _, _, _, _, _)
RECURSIVE int_walk_list(_, _, _, _, _)
\* walk(n, p) of _dfs_find_int_by_key: out after the call, given out before it
int_walk(n, p, key_lower, out) ==
    IF out.found THEN out
    ELSE IF IsDict(n) THEN int_walk_dict(n, lkeys(n), p, key_lower, 1, out)
    ELSE IF IsList(n) THEN int_walk_list(n, p, key_lower, 1, out)
    ELSE out

\* the loop over the items of dict n from place c on, lk being _lkeys(n); a
\* key match assigns out and returns whatever out held
int_walk_dict(n, lk, p, key_lower, c, out) ==
    LET Wrapped(key, v, inner) ==
            IF IsDict(v) /\ inner # {}
            THEN PathOf(p \o <<Key(key), Key(v.d[CHOOSE a \in inner : \A b \in inner : a <= b][1])>>)
            ELSE int_walk_dict(n, lk, p, key_lower, c + 1,
                               int_walk(v, Append(p, Key(key)), key_lower, out))
        Item(pk, key, v) ==
            IF pk = key_lower /\ IsIntInstance(v) THEN PathOf(Append(p, Key(key)))
            ELSE IF pk = key_lower
            THEN Wrapped(key, v, IF IsDict(v)
                                 THEN {a \in 1..Len(v.d) : IsIntInstance(v.d[a][2])} ELSE {})
            ELSE int_walk_dict(n, lk, p, key_lower, c + 1,
                               int_walk(v, Append(p, Key(key)), key_lower, out))
        Lowered(pk) == Item(pk, lk_get(lk, pk), n.d[c][2])
    IN  IF c > Len(n.d) THEN out ELSE Lowered(str_lower(n.d[c][1]))

int_walk_list(n, p, key_lower, c, out) ==
    IF c > Len(n.l) THEN out
    ELSE int_walk_list(n, p, key_lower, c + 1,
                       int_walk(n.l[c], Append(p, Idx(c - 1)), key_lower, out))

\* _dfs_find_int_by_key(obj, base_path, key_lower)
dfs_find_int_by_key(obj, base_path, key_lower) ==
    IF get(obj, base_path) = JNull THEN NoPath
    ELSE int_walk(get(obj, base_path), base_path, key_lower, NoPath)

---------------------------------------------------------------------------
(* mission.py: replace_quest_by_name_smart, the update of a matched quest *)

\* d.get(key, default)
DictGetOr(d, key, default) == IF HasKey(d, key) THEN Lookup(d, key) ELSE default

\* bool(x) of a JSON value
IsTruthy(x) ==
    CASE x.k = "null"  -> FALSE
      [] x.k = "bool"  -> x.b
      [] x.k = "int"   -> x.i # 0
      [] x.k = "float" -> x.f # 0
      [] x.k = "str"   -> x.s # ""
      [] x.k = "list"  -> x.l # <<>>
      [] x.k = "dict"  -> x.d # <<>>

\* a path as it stands in an import file (a list of str and int) and as the
\* token sequence _get and _set walk
json_path(l) == [n \in 1..Len(l) |-> IF IsStr(l[n]) THEN Key(l[n].s) ELSE Idx(l[n].i)]
path_json(path) ==
    JList([n \in 1..Len(path) |-> IF IsKeyTok(path[n]) THEN JStr(path[n].s) ELSE JInt(path[n].i)])

\* p.get("__done")
is_done(p) == IsTruthy(DictGetOr(p, "__done", JNull))
\* p["__done"] = True
mark_done(p) ==
    IF HasKey(p, "__done") THEN PutKey(p, "__done", JBool(TRUE))
    ELSE JDict(Append(p.d, <<"__done", JBool(TRUE)>>))

\* a plausible slip: tier 1 leaves the record unmarked
mark_done_forgotten(p) == p

\* the record after tier 1 has written it
mark_done_by_path(p) == mark_done(p)

\* by_lab, by_nlab or by_sig: the 0-based indices of dst_objs under each key
index_by(dst_objs, KeyOf(_)) ==
    [key \in {KeyOf(dst_objs[n]) : n \in 1..Len(dst_objs)} |->
        LET at == SelectSeq([n \in 1..Len(dst_objs) |-> n], LAMBDA n : KeyOf(dst_objs[n]) = key)
        IN  [n \in 1..Len(at) |-> at[n] - 1]]

RECURSIVE drop_used(_, _)
\* while lst and lst[0] in used: lst.pop(0)
drop_used(lst, used) ==
    IF lst # <<>> /\ Head(lst) \in used THEN drop_used(Tail(lst), used) ELSE lst

\* one _set call on behalf of import record item at a tier: the tree, the
\* count of progress values set and the history of writes after it
write_progress(st, item, tier, path, val) ==
    LET After(r) ==
            [st EXCEPT !.data = r.tree,
                       !.prog = IF r.ok THEN @ + 1 ELSE @,
                       !.log  = Append(@, [item |-> item, tier |-> tier, path |-> path,
                                           val |-> val, ok |-> r.ok])]
    IN  After(set(st.data, path, JInt(val)))

RECURSIVE tier_path(_, _)
\* 1) exact path: the loop over src_items from place n on
tier_path(st, n) ==
    LET Next(s) == tier_path(s, n + 1)
        Written(p, w) ==
            IF w.log[Len(w.log)].ok THEN Next([w EXCEPT !.items[n] = mark_done_by_path(p)])
            ELSE Next(w)
        Item(p, pth, val) ==
            IF ~IsList(pth) \/ ~val.ok THEN Next(st)
            ELSE Written(p, write_progress(st, n, 1, json_path(pth.l), val.v))
    IN  IF n > Len(st.items) THEN st
        ELSE Item(st.items[n], DictGetOr(st.items[n], "path_abs", JNull),
                  py_int(DictGetOr(st.items[n], "value", JNull)))

\* the key a record is looked up by at tiers 2, 3 and 4
tier_key(p, tier) ==
    CASE tier = 2 -> py_str(DictGetOr(p, "label", JStr("")))
      [] tier = 3 -> norm_name(py_str(DictGetOr(p, "label", JStr(""))))
      [] tier = 4 -> py_str(DictGetOr(p, "sig", JStr("")))

tier_index(st, tier) ==
    CASE tier = 2 -> st.by_lab
      [] tier = 3 -> st.by_nlab
      [] tier = 4 -> st.by_sig

with_tier_index(st, tier, idx) ==
    CASE tier = 2 -> [st EXCEPT !.by_lab = idx]
      [] tier = 3 -> [st EXCEPT !.by_nlab = idx]
      [] tier = 4 -> [st EXCEPT !.by_sig = idx]

RECURSIVE tier_keyed(_, _, _, _)
\* 2) exact label, 3) normalized label, 4) signature: the loop from place n on
tier_keyed(st, dst_objs, tier, n) ==
    LET Next(s) == tier_keyed(s, dst_objs, tier, n + 1)
        Done(p, w) == Next([w EXCEPT !.items[n] = mark_done(p)])
        \* taken: the state once index i has been popped and added to used
        Write(p, taken, i, val) ==
            IF ~val.ok THEN Next(taken)
            ELSE Done(p, write_progress(taken, n, tier, dst_objs[i + 1].path_abs, val.v))
        Take(p, key, idx, lst) ==
            IF lst = <<>> THEN Next(with_tier_index(st, tier, [idx EXCEPT ![key] = <<>>]))
            ELSE Write(p,
                       [with_tier_index(st, tier, [idx EXCEPT ![key] = Tail(lst)])
                           EXCEPT !.used = @ \cup {Head(lst)}],
                       Head(lst), py_int(DictGetOr(p, "value", JNull)))
        Look(p, key, idx) ==
            IF (tier = 4 /\ key = "") \/ key \notin DOMAIN idx THEN Next(st)
            ELSE Take(p, key, idx, drop_used(idx[key], st.used))
        Item(p) == IF is_done(p) THEN Next(st) ELSE Look(p, tier_key(p, tier), tier_index(st, tier))
    IN  IF n > Len(st.items) THEN st ELSE Item(st.items[n])

RECURSIVE skip_used(_, _, _)
\* while di < len(dst_objs) and di in used: di += 1
skip_used(di, len, used) ==
    IF di < len /\ di \in used THEN skip_used(di + 1, len, used) ELSE di

RECURSIVE tier_position(_, _, _, _)
\* 5) position fallback: the loop from place n on, di being its cursor
tier_position(st, dst_objs, di, n) ==
    LET Next(s, at) == tier_position(s, dst_objs, at, n + 1)
        Done(p, at, w) == Next([w EXCEPT !.used = @ \cup {at}, !.items[n] = mark_done(p)], at + 1)
        Write(p, at, val) ==
            IF ~val.ok THEN Next(st, at)
            ELSE Done(p, at, write_progress(st, n, 5, dst_objs[at + 1].path_abs, val.v))
        At(p, at) ==
            IF at >= Len(dst_objs) THEN st
            ELSE Write(p, at, py_int(DictGetOr(p, "value", JNull)))
        Item(p) ==
            IF is_done(p) THEN Next(st, di) ELSE At(p, skip_used(di, Len(dst_objs), st.used))
    IN  IF n > Len(st.items) THEN st ELSE Item(st.items[n])

RECURSIVE tier_deep(_, _, _)
\* 6) deep key search under the quest's base path: the loop from place n on
tier_deep(st, base, n) ==
    LET Next(s) == tier_deep(s, base, n + 1)
        Done(p, w) == Next([w EXCEPT !.items[n] = mark_done(p)])
        Write(p, target, val) ==
            IF ~target.found \/ ~val.ok THEN Next(st)
            ELSE Done(p, write_progress(st, n, 6, target.path, val.v))
        Look(p, label_lc) ==
            IF label_lc = "" THEN Next(st)
            ELSE Write(p, dfs_find_int_by_key(st.data, base, label_lc),
                       py_int(DictGetOr(p, "value", JNull)))
        Item(p) ==
            IF is_done(p) THEN Next(st)
            ELSE Look(p, str_lower(str_strip(py_str(DictGetOr(p, "label", JStr(""))))))
    IN  IF n > Len(st.items) THEN st ELSE Item(st.items[n])

\* the branch "quest exists -> update in place" for the popped row dst and the
\* import row src: the tree and src after it, the two counts it adds, and the
\* progress writes it made.  (dst["state"] and dst_objs[i]["value"] are also
\* assigned; dst has left its queue and is not read again.)
update_in_place(data, dst, src) ==
    LET Tiers(start, dst_objs) ==
            tier_deep(
                tier_position(
                    tier_keyed(
                        tier_keyed(
                            tier_keyed(tier_path(start, 1), dst_objs, 2, 1),
                            dst_objs, 3, 1),
                        dst_objs, 4, 1),
                    dst_objs, 0, 1),
                dst.elem_base_abs, 1)
        Result(end, rows) ==
            [data         |-> end.data,
             src          |-> IF end.items = <<>> THEN src
                              ELSE PutKey(src, "progress", JList(end.items)),
             applied_rows |-> rows,
             applied_prog |-> end.prog,
             log          |-> end.log]
        \* if src_items: the six tiers
        Progress(start, rows) ==
            Result(IF start.items = <<>> THEN start ELSE Tiers(start, dst.progress_objects), rows)
        Start(tree, progress, dst_objs) ==
            [data    |-> tree,
             items   |-> IF IsTruthy(progress) THEN progress.l ELSE <<>>,
             used    |-> {},
             by_lab  |-> index_by(dst_objs, LAMBDA o : o.label),
             by_nlab |-> index_by(dst_objs, LAMBDA o : norm_name(o.label)),
             by_sig  |-> index_by(dst_objs, LAMBDA o : o.sig),
             prog    |-> 0,
             log     |-> <<>>]
        Stated(written) ==
            Progress(Start(written.tree, DictGetOr(src, "progress", JNull), dst.progress_objects),
                     IF written.ok THEN 1 ELSE 0)
        Retarget(st, leaf_path) ==
            set(data, leaf_path,
                JStr(retarget_enum_like(str_or_empty(get(data, leaf_path)), py_str(st))))
        \* the outcome of the write of the state, when there is one to make
        State(st) ==
            IF st # JNull /\ Truthy(dst.state_path_abs)
            THEN Retarget(st, state_leaf_path(data, dst.state_path_abs.path))
            ELSE SetFailed(data)
    IN  Stated(State(DictGetOr(src, "state", JNull)))

---------------------------------------------------------------------------
(* mission.py: _build_new_quest_from_template *)

\* the int a canonical state is stored as where the leaf holds an int
state_code(canon, cur) ==
    IF str_contains(canon, "E_INACTIVE") THEN JInt(0)
    ELSE IF str_contains(canon, "E_IN_PROGRESS") THEN JInt(1)
    ELSE IF str_contains(canon, "E_COMPLETE_SUCCESS") THEN JInt(2)
    ELSE IF str_contains(canon, "E_COMPLETE_FAIL") THEN JInt(3)
    ELSE cur

RECURSIVE patch_progress(_, _, _, _)
\* the loop over progress_items from place n on
patch_progress(new_elem, elem_base_abs, progress_items, n) ==
    LET Next(elem) == patch_progress(elem, elem_base_abs, progress_items, n + 1)
        Patch(val, abs_path) ==
            IF val.ok /\ abs_path.found
            THEN Next(set(new_elem, abs_path.path, JInt(val.v)).tree)
            ELSE Next(new_elem)
        Item(p) ==
            Patch(py_int(DictGetOr(p, "value", JNull)),
                  dfs_find_int_by_key(new_elem, elem_base_abs,
                      str_lower(str_strip(py_str(DictGetOr(p, "label", JStr("")))))))
    IN  IF n > Len(progress_items) THEN new_elem ELSE Item(progress_items[n])

\* _build_new_quest_from_template(template_elem, name, state_enum, progress_items)
build_new_quest_from_template(template_elem, name, state_enum, progress_items) ==
    LET Patched(u, stated) == patch_progress(stated, u.path, progress_items, 1)
        Value(cur, canon) ==
            IF IsStr(cur) THEN JStr(retarget_enum_like(cur.s, canon))
            ELSE IF IsIntInstance(cur) THEN state_code(canon, cur)
            ELSE JStr(canon)
        Stated(u, named, leaf_abs) ==
            Patched(u, set(named, leaf_abs,
                           Value(get(named, leaf_abs), norm_enum(state_enum))).tree)
        WithState(u, named, state_p_rel) ==
            IF Truthy(state_p_rel)
            THEN Stated(u, named, state_leaf_path(named, u.path \o state_p_rel.path))
            ELSE Patched(u, named)
        StateOr(u, named, unwrapped, by_key) ==
            WithState(u, named, IF Truthy(by_key) THEN by_key ELSE dfs_find_enum_value(unwrapped))
        Unwrapped(u, named, unwrapped) ==
            StateOr(u, named, unwrapped,
                    dfs_find_key(unwrapped, names_lc(STATE_KEYS, keyOrder.state)))
        Named(u, named) == Unwrapped(u, named, get(named, u.path))
        WithName(u, name_p_rel) ==
            Named(u, IF Truthy(name_p_rel)
                     THEN set(template_elem, u.path \o name_p_rel.path, JStr(name)).tree
                     ELSE template_elem)
        Template(u) == WithName(u, dfs_find_key(u.node, names_lc(NAME_KEYS, keyOrder.name)))
    IN  Template(unwrap_with_path(template_elem, <<>>))

---------------------------------------------------------------------------
(* mission.py: replace_quest_by_name_smart *)

\* by_name after the loop over cur_rows: the rows of each non-empty
\* normalized name, in discovery order
group_by_name(rows) ==
    [nm \in {norm_name(rows[n].name) : n \in 1..Len(rows)} \ {""} |->
        SelectSeq(rows, LAMBDA r : norm_name(r.name) = nm)]

\* by_name.setdefault(nm, []).append(r)
queue_append(by_name, nm, r) ==
    [k \in DOMAIN by_name \cup {nm} |->
        IF k = nm THEN (IF nm \in DOMAIN by_name THEN Append(by_name[nm], r) ELSE <<r>>)
        ELSE by_name[k]]

\* where the list object that _quest_array_ref returns lives in data: the
\* path returned with it, except after "generic unwrap", which returns the
\* path of the quest root for a list found further down
list_object_path(data, found) ==
    LET Below(q) == unwrap_with_path(q.qsd, <<Key("root"), Key("properties"), Key(q.qkey)>>).path
    IN  IF found.how = "generic unwrap" THEN Below(quest_root_dict(data)) ELSE found.path

\* src.get("name") or ""
raw_name_of(src) ==
    IF IsTruthy(DictGetOr(src, "name", JNull)) THEN DictGetOr(src, "name", JNull) ELSE JStr("")

\* the import row the loop is at, and its normalized name
Src == qImport.l[qIdx]
Nm  == norm_name(raw_name_of(Src).s)

InLoop  == qPc = "rows" /\ qIdx <= Len(qImport.l)
Matched == Nm \in DOMAIN qByName /\ qByName[Nm] # <<>>
CanAdd  == qAddMissing /\ qList.is_list /\ qList.template

\* lines 550-570: discovery, the name queues, the template
BeginImport ==
    /\ qPc = "call"
    /\ \E d \in {discover_quests(qData)}, found \in {find_quest_array_and_path(qData)} :
           IF ~d.ok
           THEN /\ qPc' = "raised"
                /\ UNCHANGED <<qByName, qList, qIdx>>
           ELSE /\ qPc' = "rows"
                /\ qIdx' = 1
                /\ qByName' = group_by_name(d.rows)
                /\ qList' = [is_list  |-> IsList(found.lst),
                             path     |-> list_object_path(qData, found),
                             template |-> IsList(found.lst) /\ found.lst.l # <<>>
                                          /\ found.lst.l[1] # JNull]
    /\ UNCHANGED <<qData, qData0, qImport, qImport0, qAddMissing,
                   qAppliedRows, qAppliedProg, qAdded, qLog, qMatched, qResult, notImport>>

\* a row without a name: continue
SkipRow ==
    /\ InLoop /\ Nm = ""
    /\ qIdx' = qIdx + 1
    /\ UNCHANGED <<qData, qData0, qImport, qImport0, qAddMissing, qPc, qByName, qList,
                   qAppliedRows, qAppliedProg, qAdded, qLog, qMatched, qResult, notImport>>

\* the quest exists: pop its row and update state and progress in place
UpdateRow ==
    /\ InLoop /\ Nm # "" /\ Matched
    /\ \E u \in {update_in_place(qData, Head(qByName[Nm]), Src)} :
           /\ qData' = u.data
           /\ qImport' = JList([qImport.l EXCEPT ![qIdx] = u.src])
           /\ qAppliedRows' = qAppliedRows + u.applied_rows
           /\ qAppliedProg' = qAppliedProg + u.applied_prog
           /\ qLog' = qLog \o [n \in 1..Len(u.log) |->
                                  [row |-> qIdx, item |-> u.log[n].item, tier |-> u.log[n].tier,
                                   path |-> u.log[n].path, val |-> u.log[n].val,
                                   ok |-> u.log[n].ok]]
    /\ qByName' = [qByName EXCEPT ![Nm] = Tail(@)]
    /\ qMatched' = Append(qMatched, [row |-> qIdx, elem |-> Head(qByName[Nm]).elem_base_abs])
    /\ qIdx' = qIdx + 1
    /\ UNCHANGED <<qData0, qImport0, qAddMissing, qPc, qList, qAdded, qResult, notImport>>

\* the name is not found and a quest is appended: a clone of the first
\* element patched with the row, registered under the row's name.  qlist and
\* template_elem are the objects found at the call; they are read here at
\* their place in data, where they still are unless an earlier row wrote at
\* the path of the list or of its first element (no import of several rows
\* carries such a path).
AddRow ==
    /\ InLoop /\ Nm # "" /\ ~Matched /\ CanAdd
    /\ LET state    == DictGetOr(Src, "state", JNull)
           progress == DictGetOr(Src, "progress", JNull)
           qlist    == get(qData, qList.path)
           new_elem == build_new_quest_from_template(
                           qlist.l[1], raw_name_of(Src).s,
                           norm_enum(IF IsTruthy(state) THEN state.s ELSE "E_IN_PROGRESS"),
                           IF IsTruthy(progress) THEN progress.l ELSE <<>>)
       IN  \E appended \in {set(qData, qList.path, JList(Append(qlist.l, new_elem))).tree} :
           \E new_rows \in {discover_quests(appended)} :
           \E named \in {{n \in 1..Len(new_rows.rows) : norm_name(new_rows.rows[n].name) = Nm}} :
               /\ qData' = appended
               /\ qAdded' = qAdded + 1
               /\ IF ~new_rows.ok
                  THEN qPc' = "raised" /\ UNCHANGED <<qByName, qIdx>>
                  ELSE /\ qPc' = qPc
                       /\ qIdx' = qIdx + 1
                       /\ qByName' =
                              IF named = {} THEN qByName
                              ELSE queue_append(qByName, Nm,
                                       new_rows.rows[CHOOSE n \in named : \A m \in named : n <= m])
    /\ UNCHANGED <<qData0, qImport, qImport0, qAddMissing, qList,
                   qAppliedRows, qAppliedProg, qLog, qMatched, qResult, notImport>>

\* the name is not found and nothing is appended
PassRow ==
    /\ InLoop /\ Nm # "" /\ ~Matched /\ ~CanAdd
    /\ qIdx' = qIdx + 1
    /\ UNCHANGED <<qData, qData0, qImport, qImport0, qAddMissing, qPc, qByName, qList,
                   qAppliedRows, qAppliedProg, qAdded, qLog, qMatched, qResult, notImport>>

\* return applied_rows + added, applied_prog
ReturnCounts ==
    /\ qPc = "rows" /\ qIdx > Len(qImport.l)
    /\ qPc' = "returned"
    /\ qResult' = <<qAppliedRows + qAdded, qAppliedProg>>
    /\ UNCHANGED <<qData, qData0, qImport, qImport0, qAddMissing, qIdx, qByName, qList,
                   qAppliedRows, qAppliedProg, qAdded, qLog, qMatched, notImport>>

NextImport == BeginImport \/ SkipRow \/ UpdateRow \/ AddRow \/ PassRow \/ ReturnCounts

---------------------------------------------------------------------------
(* Importing quest rows into a save *)

MaxQuests == 2      \* elements of the quest list
MaxItems  == 2      \* progress records of an import row
MaxRows   == 3      \* rows of an import

Prefixes(seq, lo, hi) == {SubSeq(seq, 1, n) : n \in lo..Min(hi, Len(seq))}

\* the forms a save stores the state of a quest in
StoredStates == {"ELQuestState::E_INACTIVE", "E_INACTIVE"}

Forge(st)    == JDict(<< <<"QuestCodeName_0", JStr("Forge the Knife")>>,
                         <<"QuestState_0", JStr(st)>>, <<"Kills", JInt(0)>> >>)
ForgeTwo(st) == JDict(<< <<"QuestCodeName_0", JStr("Forge the Knife")>>,
                         <<"QuestState_0", JStr(st)>>, <<"Kills", JInt(0)>>,
                         <<"Parts", JInt(1)>> >>)
OtherQuest   == JDict(<< <<"QuestCodeName_0", JStr("Other")>>,
                         <<"QuestState_0", JStr("E_INACTIVE")>>, <<"Kills", JInt(2)>> >>)
\* a second quest of the same name, further on
ForgeAgain   == JDict(<< <<"QuestCodeName_0", JStr("FORGE THE KNIFE")>>,
                         <<"QuestState_0", JStr("E_COMPLETE_SUCCESS")>>, <<"Kills", JInt(9)>>,
                         <<"Parts", JInt(8)>> >>)
\* a property-shaped quest: a tag descriptor beside the Struct payload, the
\* leaves wrapped in turn
ForgeTagged ==
    JDict(<< <<"tag", JDict(<< <<"data", JDict(<< <<"Other", JStr("StructProperty")>> >>)>> >>)>>,
             <<"Struct", JDict(<< <<"QuestCodeName_0", JDict(<< <<"Name", JStr("Forge the Knife")>> >>)>>,
                                  <<"QuestState_0", JDict(<< <<"Enum", JStr("ELQuestState::E_INACTIVE")>> >>)>>,
                                  <<"Kills_0", JDict(<< <<"Int", JInt(0)>> >>)>>,
                                  <<"Parts_0", JDict(<< <<"Int", JInt(1)>> >>)>> >>)>> >>)
\* a quest whose progress lies below a list of objectives
ForgeSteps ==
    JDict(<< <<"QuestCodeName_0", JStr("Forge the Knife")>>, <<"QuestState_0", JStr("E_INACTIVE")>>,
             <<"Steps", JList(<< JDict(<< <<"Objective", JDict(<< <<"Count", JInt(2)>> >>)>> >>) >>)>> >>)
\* a quest with a code name beside its display name
ForgeCoded ==
    JDict(<< <<"QuestName_0", JStr("Forge the Knife")>>, <<"QuestCodeName_0", JStr("Q_FORGE")>>,
             <<"QuestState_0", JStr("E_INACTIVE")>>, <<"Kills", JInt(0)>>, <<"Parts", JInt(1)>> >>)

QuestTails == {<<OtherQuest, ForgeAgain>>, <<ForgeAgain, OtherQuest>>}
QuestListsOf(heads) ==
    {JList(SubSeq(<<h>> \o t, 1, n)) : h \in heads, t \in QuestTails, n \in 1..MaxQuests}

PlainLists == QuestListsOf({Forge(st) : st \in StoredStates} \cup {ForgeTwo("E_INACTIVE")})

\* a save with the quest list at the known path
SaveOf(lst) == JDict(<< <<"root", JDict(<< <<"properties", JDict(<< <<"QuestSaveData_0", KnownQuestData(lst)>> >>)>> >>)>> >>)
\* a save whose quest list only the deep scan finds
SaveOffPath(lst) == JDict(<< <<"root", JDict(<< <<"properties", JDict(<< <<"Quests", lst>> >>)>> >>)>> >>)

\* the absolute path of a leaf of element n of the list at the known path
LeafPath(n, key) ==
    JList(<<JStr("root"), JStr("properties"), JStr("QuestSaveData_0"), JStr("Struct"), JStr("Struct"),
            JStr("QuestList_0"), JStr("Array"), JStr("Struct"), JStr("value"), JInt(n), JStr(key)>>)

\* the absolute paths of the list at the known path and of its element n
ListPath    == JList(SubSeq(LeafPath(0, "").l, 1, 9))
ElemPath(n) == JList(SubSeq(LeafPath(n, "").l, 1, 10))

ByLabel(label, value) == JDict(<< <<"label", JStr(label)>>, <<"value", value>> >>)
BySig(label, sig, value) == JDict(<< <<"label", JStr(label)>>, <<"value", value>>, <<"sig", JStr(sig)>> >>)
ByPath(label, value, path, sig) ==
    JDict(<< <<"label", JStr(label)>>, <<"value", value>>, <<"path_abs", path>>, <<"sig", JStr(sig)>> >>)

\* runs of progress records, of which an import row carries a prefix
ProgressScripts ==
    { <<ByLabel("Kills", JInt(3)), ByLabel("Kills", JInt(5)), ByLabel("Zed", JInt(4))>>,
      <<ByPath("Kills", JInt(3), LeafPath(0, "Parts"), "0/parts"), ByLabel("Kills", JInt(5)),
        ByLabel("Parts", JInt(4))>>,
      <<ByPath("Kills", JInt(3), LeafPath(0, "Kills"), "0/kills"),
        ByPath("Parts", JInt(4), LeafPath(0, "Parts"), "0/parts"), ByLabel("Zed", JInt(5))>>,
      <<ByLabel("kills", JInt(3)), BySig("Zed", "0/parts", JInt(4)), ByLabel("Zed", JInt(5))>>,
      <<ByLabel("Kills", JStr("x")), ByLabel("Zed", JInt(3)), ByLabel("kills", JStr("4"))>>,
      <<ByPath("Parts", JInt(2), LeafPath(5, "Parts"), "5/parts"), ByLabel("Kills", JBool(TRUE)),
        ByLabel("Kills", JInt(4))>>,
      <<ByPath("Kills", JInt(3), LeafPath(0, "Kills"), "0/kills"), ByLabel("Kills", JInt(5)),
        ByLabel("Parts", JInt(4))>> }
ProgressLists == UNION {Prefixes(script, 0, MaxItems) : script \in ProgressScripts}

ImportNames  == {"forge the knife", "Forge_the-Knife", "New Quest"}
ImportStates == {JNull, JStr("E_IN_PROGRESS")}

ImportRow(name, state, progress) ==
    JDict(<< <<"name", JStr(name)>> >>
          \o (IF state = JNull THEN <<>> ELSE << <<"state", state>> >>)
          \o << <<"progress", JList(progress)>> >>)

FirstRows ==
    {ImportRow(nm, st, pr) : nm \in ImportNames, st \in ImportStates, pr \in ProgressLists}
        \cup {ImportRow("", JStr("E_IN_PROGRESS"), <<ByLabel("Kills", JInt(3))>>)}
\* the rows that follow the first: the same quest again, a new quest again
RowTails ==
    { <<ImportRow("Forge the Knife", JStr("E_COMPLETE_FAIL"), <<ByLabel("Kills", JInt(6))>>),
        ImportRow("new quest", JNull, <<ByLabel("Kills", JInt(7))>>)>>,
      <<ImportRow("new quest", JStr("E_COMPLETE_FAIL"), <<ByLabel("Kills", JInt(7))>>),
        ImportRow("Forge the Knife", JNull, <<ByLabel("Kills", JInt(6))>>)>>,
      <<ImportRow("Forge the Knife", JStr("E_COMPLETE_FAIL"), <<ByLabel("Kills", JInt(6))>>),
        ImportRow("FORGE THE KNIFE", JNull, <<ByLabel("Kills", JInt(7))>>)>> }
\* imports of one row, and of more
OneRow(first) == {JList(<<r>>) : r \in first}
ImportsOf(first) ==
    {JList(SubSeq(<<r>> \o t, 1, n)) : r \in first, t \in RowTails, n \in 2..MaxRows}

\* rows whose records carry the path of a container: of the first quest, of
\* the quest list
StaleScript ==
    <<ByPath("Kills", JInt(3), ElemPath(0), "value/0"),
      ByPath("Parts", JInt(4), ListPath, "struct/value"), ByLabel("Zed", JInt(5))>>
StaleRows ==
    {ImportRow("forge the knife", st, pr) :
        st \in ImportStates, pr \in Prefixes(StaleScript, 1, MaxItems)}

\* the rows imported into a quest whose discovery depends on an iteration order
FewRows ==
    {ImportRow("forge the knife", JStr("E_IN_PROGRESS"), pr) :
        pr \in UNION {Prefixes(script, 1, MaxItems) : script \in ProgressScripts}}
\* the two orders of the lowered _NAME_KEYS, the one order of _STATE_KEYS
KeyOrders == {[state |-> FALSE, name |-> rev] : rev \in BOOLEAN}

ImportStart ==
    /\ MergeIdle /\ RetargetIdle /\ SaveIdle /\ DiscoverIdle /\ SetterIdle /\ AccessIdle /\ CheatIdle /\ AsyncIdle
    /\ qData0 = qData /\ qImport0 = qImport
    /\ qPc = "call" /\ qIdx = 0 /\ qByName = <<>>
    /\ qList = [is_list |-> FALSE, path |-> <<>>, template |-> FALSE]
    /\ qAppliedRows = 0 /\ qAppliedProg = 0 /\ qAdded = 0 /\ qLog = <<>> /\ qMatched = <<>>
    /\ qResult = <<>>

InitImport ==
    /\ \/ /\ HashIdle
          /\ qData \in {SaveOf(lst) : lst \in PlainLists}
                       \cup {SaveOffPath(JList(<<ForgeTwo("E_INACTIVE")>>)), SaveOf(JList(<<ForgeSteps>>))}
          /\ qImport \in OneRow(FirstRows \cup StaleRows)
          /\ qAddMissing \in BOOLEAN
       \/ /\ HashIdle
          /\ qData \in {SaveOf(lst) : lst \in QuestListsOf({ForgeTwo("E_INACTIVE")})}
          /\ qImport \in ImportsOf(FirstRows)
          /\ qAddMissing \in BOOLEAN
       \/ /\ hashOrder \in HashOrders
          /\ keyOrder = [state |-> FALSE, name |-> FALSE]
          /\ qData = SaveOf(JList(<<ForgeTagged>>))
          /\ qImport \in OneRow(FewRows)
          /\ qAddMissing = TRUE
       \/ /\ hashOrder = <<"struct", "data", "value", "tag">>
          /\ keyOrder \in KeyOrders
          /\ qData = SaveOf(JList(<<ForgeCoded>>))
          /\ qImport \in OneRow(FewRows) \cup ImportsOf(FewRows)
          /\ qAddMissing = TRUE
    /\ ImportStart

SpecImport == InitImport /\ [][NextImport]_vars


---------------------------------------------------------------------------
(* Properties of the tree save_sav hands to the encoder *)

RECURSIVE SameShape(_, _)
\* out has the dicts, the key sets and the list lengths of base at every place
SameShape(base, out) ==
    IF IsDict(base)
    THEN /\ IsDict(out)
         /\ Keys(out) = Keys(base)
         /\ \A key \in Keys(base) : SameShape(Lookup(base, key), Lookup(out, key))
    ELSE IF IsList(base)
    THEN /\ IsList(out)
         /\ Len(out.l) = Len(base.l)
         /\ \A n \in DOMAIN base.l : SameShape(base.l[n], out.l[n])
    ELSE ~IsContainer(out)

\* C26: the tree save_sav hands to the encoder has the baseline's shape
\* whatever was done to the live tree: what was appended to a list or added
\* to a mapping of the live tree is not in the merged tree, whose lists and
\* mappings have exactly the baseline's lengths and key sets.
C26_MergedHasBaselineShape ==
    sMerged # JNull => SameShape(sBaseline, sMerged)

\* C29: merge(b, b) = b for every tree b: an unedited tree merged onto its own
\* baseline gives a tree equal to the baseline at every position, also below
\* tagged {tag, value} nodes.
C29_MergeOfSelfIsSelf ==
    (mPc = "merged" /\ mEdited = mBase) => mOut = mBase

---------------------------------------------------------------------------
(* Properties of the import *)

\* what a stored state holds before its E_ marker
StoredPrefix(st) == SubSeq(st, 1, str_find(st, "E_"))

\* the import of the one row r into the save whose quest list is lst has returned
Imported(lst, r) ==
    /\ qPc = "returned"
    /\ qData0 = SaveOf(JList(lst))
    /\ qImport0 = JList(<<r>>)

\* the leaf of element n of the quest list at the known path, in tree
LeafAt(tree, n, key) == get(tree, json_path(LeafPath(n, key).l))

\* C6: once the import has matched a row to a quest, the state leaf of the
\* quest holds the prefix the save stored before the E_ marker, exactly as it
\* was stored, followed by the imported state, and the progress leaf matched
\* by label holds the imported value.  In particular, for the quest named
\* "Forge the Knife" that stores "ELQuestState::E_INACTIVE" and Kills 0, the
\* import of the row {name "forge the knife", state "E_IN_PROGRESS", Kills 3}
\* leaves the state leaf "ELQuestState::E_IN_PROGRESS" and the Kills leaf 3.
C6_ImportKeepsStoredPrefix ==
    \A st \in StoredStates :
        Imported(<<Forge(st)>>,
                 ImportRow("forge the knife", JStr("E_IN_PROGRESS"), <<ByLabel("Kills", JInt(3))>>))
            => /\ LeafAt(qData, 0, "QuestState_0") = JStr(StoredPrefix(st) \o "E_IN_PROGRESS")
               /\ LeafAt(qData, 0, "Kills") = JInt(3)

\* the import record a write of the history was made for
RecordOf(e) == DictGetOr(qImport0.l[e.row], "progress", JNull).l[e.item]
SameRecord(a, b) == qLog[a].row = qLog[b].row /\ qLog[a].item = qLog[b].item

\* the progress objects discovery finds in the save as it was before the import
ObjectsBefore ==
    UNION { {row.progress_objects[n] : n \in 1..Len(row.progress_objects)} :
                row \in {discover_quests(qData0).rows[m] :
                             m \in 1..Len(discover_quests(qData0).rows)} }

\* C7: a progress record that carries a path is written at that path, by
\* tier 1, where the path resolves, and nowhere else: no later tier writes
\* for it, and a later tier writes for a record with a path only after tier 1
\* failed to.  Where such a record is all that is imported and its path is
\* that of a discovered progress object, every other progress object of the
\* save, one that bears the label of the record included, keeps its value.
C7_PathTierWritesOnlyAtPath ==
    /\ \A a \in 1..Len(qLog) :
           (qLog[a].tier = 1 /\ qLog[a].ok)
               => /\ qLog[a].path = json_path(DictGetOr(RecordOf(qLog[a]), "path_abs", JNull).l)
                  /\ \A b \in 1..Len(qLog) : SameRecord(a, b) => b = a
    /\ \A b \in 1..Len(qLog) :
           (IsList(DictGetOr(RecordOf(qLog[b]), "path_abs", JNull)) /\ qLog[b].tier # 1)
               => \E a \in 1..Len(qLog) : SameRecord(a, b) /\ qLog[a].tier = 1 /\ ~qLog[a].ok
    /\ (/\ qPc = "returned" /\ Len(qImport0.l) = 1
        /\ Len(qLog) = 1 /\ qLog[1].tier = 1 /\ qLog[1].ok
        /\ \E o \in ObjectsBefore : o.path_abs = qLog[1].path)
           => \A o \in ObjectsBefore :
                  o.path_abs # qLog[1].path => get(qData, o.path_abs) = o.value

\* the record {label "Kills", value 3} with the path of the Parts leaf has
\* been imported into a quest that has a Kills leaf and a Parts leaf: Parts
\* holds 3, written by tier 1, and Kills still holds 0
C7_Witness ==
    /\ \E st \in ImportStates :
           Imported(<<ForgeTwo("E_INACTIVE")>>,
                    ImportRow("forge the knife", st,
                              <<ByPath("Kills", JInt(3), LeafPath(0, "Parts"), "0/parts")>>))
    /\ Len(qLog) = 1 /\ qLog[1].tier = 1 /\ qLog[1].ok
    /\ LeafAt(qData, 0, "Parts") = JInt(3)
    /\ LeafAt(qData, 0, "Kills") = JInt(0)

\* the normalized name of row n of the import as it was at the call
NameOfRow(n) == norm_name(raw_name_of(qImport0.l[n]).s)
\* which of the import records of its name row n is: the first, the second, ...
RankOfRow(n) == Cardinality({m \in 1..n : NameOfRow(m) = NameOfRow(n)})
\* the entities of a normalized name that discovery finds at the call, in
\* discovery order
EntitiesNamed(nm) ==
    LET Named(rows) == SelectSeq(rows, LAMBDA r : norm_name(r.name) = nm)
    IN  Named(discover_quests(qData0).rows)

\* C12: import records are matched to entities by normalized name: the k-th
\* import record of a name is applied to the k-th entity of that name in
\* discovery order, and no entity is matched by two import records within
\* one pass.
C12_MatchByNameInOrder ==
    /\ \A a \in 1..Len(qMatched) :
           RankOfRow(qMatched[a].row) <= Len(EntitiesNamed(NameOfRow(qMatched[a].row)))
               => qMatched[a].elem =
                      EntitiesNamed(NameOfRow(qMatched[a].row))[RankOfRow(qMatched[a].row)].elem_base_abs
    /\ \A a, b \in 1..Len(qMatched) : qMatched[a].elem = qMatched[b].elem => a = b

\* C18: a write whose target holds a value of a conflicting type is a no-op
\* that reports no change: where the one row of an import carries a progress
\* record whose path points at a mapping or a sequence of the save, the
\* write for the record fails, is not counted, and the position holds the
\* same container afterwards.
C18_ContainerNotOverwritten ==
    (Len(qImport0.l) = 1 /\ Len(qLog) >= 1
     /\ qLog[1].tier = 1 /\ IsContainer(get(qData0, qLog[1].path)))
        => /\ ~qLog[1].ok
           /\ get(qData, qLog[1].path) = get(qData0, qLog[1].path)
           /\ qAppliedProg = Cardinality({a \in 2..Len(qLog) : qLog[a].ok})

\* C19: discover_quests never raises for a tree of mappings, sequences and
\* scalars: whatever the depth and shape of the paths to the integer leaves
\* of a quest, the import goes on from its discovery with a row for every
\* element of the quest list.
C19_DiscoverNeverRaises ==
    /\ qPc # "raised"
    /\ qPc \in {"rows", "returned"} => discover_quests(qData0).ok

\* C20: within one matched entity, each discovered progress object is
\* written by at most one import progress record over all six tiers: an
\* object written for a record in an earlier tier, tier 1 included, is not
\* written again for another record in a later tier.
C20_ObjectWrittenOnce ==
    \A a, b \in 1..Len(qLog) :
        (/\ qLog[a].row = qLog[b].row /\ qLog[a].ok /\ qLog[b].ok
         /\ qLog[a].path = qLog[b].path)
            => qLog[a].item = qLog[b].item

\* the normalised names of the import that no discovered quest bears
UnknownNames ==
    {NameOfRow(n) : n \in 1..Len(qImport0.l)}
        \ ({""} \cup {nm \in {NameOfRow(n) : n \in 1..Len(qImport0.l)} : EntitiesNamed(nm) # <<>>})

\* C21: with add_missing the quest list ends longer by exactly the number of
\* distinct normalised names of the import that no discovered quest bears (a
\* repeated unknown name is appended once), and without add_missing the list
\* keeps its length.
C21_GrowsByUnknownNames ==
    (qPc = "returned" /\ qList.is_list /\ IsList(get(qData, qList.path)))
        => Len(get(qData, qList.path).l) =
               Len(get(qData0, qList.path).l)
                   + (IF qAddMissing THEN Cardinality(UnknownNames) ELSE 0)

\* C28: the import does not modify the imported records: when it returns,
\* every import record and every progress entry of it has the keys and values
\* it had at the call (so the same list imports the same way again).
C28_ImportRecordsUntouched ==
    qPc = "returned" => qImport = qImport0

---------------------------------------------------------------------------
(* cheats.py: _clamp32 and the typed setters *)

\* A Python int has no width and a TLC integer has 32 bits: an int n of a
\* property node is the pair of its floor quotient and remainder by 2^16,
\* n = hi * 65536 + lo with 0 <= lo < 65536.
Wide(hi, lo)   == [hi |-> hi, lo |-> lo]
WideLess(a, b) == a.hi < b.hi \/ (a.hi = b.hi /\ a.lo < b.lo)
WideMin(a, b)  == IF WideLess(b, a) THEN b ELSE a
WideMax(a, b)  == IF WideLess(a, b) THEN b ELSE a
WideZero       == Wide(0, 0)

\* INT32_MAX = (2**31) - 1
INT32_MAX == Wide(32767, 65535)

\* bool(x) of the value of a property node
NodeTruthy(x) == IF x.k = "int" THEN x.i # WideZero ELSE IsTruthy(x)

\* an int of the other parts of the model, which is a TLC integer, as a pair
ToWide(n) == Wide(n \div 65536, n % 65536)

\* int(x) of the value of a property node: [ok, n], ok FALSE where int raises
wide_int(x) ==
    LET Of(c) == [ok |-> c.ok, n |-> ToWide(c.v)]
    IN  IF x.k = "int" THEN [ok |-> TRUE, n |-> x.i] ELSE Of(py_int(x))

\* a plausible slip: the upper limit left out
clamp32_floor_only(v) ==
    LET Of(c) == IF ~c.ok THEN WideZero ELSE WideMax(WideZero, c.n)
    IN  Of(wide_int(v))

\* _clamp32(v)
clamp32(v) ==
    LET Of(c) == IF ~c.ok THEN WideZero ELSE WideMax(WideZero, WideMin(INT32_MAX, c.n))
    IN  Of(wide_int(v))

\* try: cur = int(x or 0) / except Exception: cur = 0
int_or_zero(x) ==
    LET Of(c) == IF c.ok THEN c.n ELSE WideZero
    IN  IF NodeTruthy(x) THEN Of(wide_int(x)) ELSE WideZero

\* node[key] = val
StoreKey(node, key, val) ==
    IF HasKey(node, key) THEN PutKey(node, key, val) ELSE JDict(Append(node.d, <<key, val>>))

\* {"data": {"Other": name}} and {"data": {"Enum": [enum_type, None]}}
OtherTag(name)     == JDict(<< <<"data", JDict(<< <<"Other", JStr(name)>> >>)>> >>)
EnumTag(enum_type) == JDict(<< <<"data", JDict(<< <<"Enum", JList(<<JStr(enum_type), JNull>>)>> >>)>> >>)

Unchanged(node)    == [node |-> node, changed |-> FALSE]
Changed(node)      == [node |-> node, changed |-> TRUE]

\* _set_int(node, value, apply=apply): [node, changed]
set_int(node, value, apply) ==
    LET Write(slot, tag, v) ==
            Changed(IF apply THEN StoreKey(StoreKey(node, slot, JInt(v)), "tag", OtherTag(tag))
                    ELSE node)
        In(slot, tag, v) ==
            IF int_or_zero(Lookup(node, slot)) = v THEN Unchanged(node) ELSE Write(slot, tag, v)
        With(v) ==
            IF HasKey(node, "Int") THEN In("Int", "IntProperty", v)
            ELSE IF HasKey(node, "Int64") THEN In("Int64", "Int64Property", v)
            ELSE Write("Int", "IntProperty", v)
    IN  With(clamp32(value))

\* cur is value, for a bool value: True, False and None are single objects,
\* and an object of another type is not value
is_same(cur, value) == cur = value

\* a plausible slip: the slot read under another key
set_bool_other_key(node, value, apply) ==
    LET Tagged(n) == IF HasKey(n, "tag") THEN n ELSE StoreKey(n, "tag", OtherTag("BoolProperty"))
    IN  IF is_same(DictGetOr(node, "bool", JNull), value) THEN Unchanged(node)
        ELSE Changed(IF apply THEN Tagged(StoreKey(node, "Bool", JBool(NodeTruthy(value))))
                     ELSE node)

\* _set_bool(node, value, apply=apply): [node, changed]
set_bool(node, value, apply) ==
    LET Tagged(n) == IF HasKey(n, "tag") THEN n ELSE StoreKey(n, "tag", OtherTag("BoolProperty"))
    IN  IF is_same(DictGetOr(node, "Bool", JNull), value) THEN Unchanged(node)
        ELSE Changed(IF apply THEN Tagged(StoreKey(node, "Bool", JBool(NodeTruthy(value))))
                     ELSE node)

\* a plausible slip: the write made before apply is looked at
set_enum_eager(node, enum_type, enum_value, apply) ==
    LET To(cur, target) ==
            IF IsStr(cur) /\ cur.s = target THEN Unchanged(node)
            ELSE Changed(StoreKey(StoreKey(node, "Enum", JStr(target)), "tag", EnumTag(enum_type)))
    IN  To(DictGetOr(node, "Enum", JNull),
           IF str_contains(enum_value, "::") THEN enum_value ELSE enum_type \o "::" \o enum_value)

\* _set_enum(node, enum_type, enum_value, apply=apply): [node, changed]
set_enum(node, enum_type, enum_value, apply) ==
    LET To(cur, target) ==
            IF IsStr(cur) /\ cur.s = target THEN Unchanged(node)
            ELSE Changed(IF apply
                         THEN StoreKey(StoreKey(node, "Enum", JStr(target)), "tag", EnumTag(enum_type))
                         ELSE node)
    IN  To(DictGetOr(node, "Enum", JNull),
           IF str_contains(enum_value, "::") THEN enum_value ELSE enum_type \o "::" \o enum_value)

\* node.setdefault(key, val) and node.pop(key, None)
SetDefault(node, key, val) == IF HasKey(node, key) THEN node ELSE StoreKey(node, key, val)
PopKey(node, key) == JDict(SelectSeq(node.d, LAMBDA e : e[1] # key))

\* _ensure_int_property(container, key) for a container that holds the dict
\* node under key: node afterwards
ensure_int_property(node) ==
    LET Normalized ==
            IF ~HasKey(node, "Int") /\ HasKey(node, "Int64")
            THEN PopKey(StoreKey(node, "Int", JInt(int_or_zero(Lookup(node, "Int64")))), "Int64")
            ELSE node
    IN  SetDefault(SetDefault(Normalized, "tag", OtherTag("IntProperty")), "Int", JInt(WideZero))

\* _ensure_bool_property(container, key), likewise
ensure_bool_property(node) ==
    SetDefault(SetDefault(node, "tag", OtherTag("BoolProperty")), "Bool", JBool(FALSE))

\* _ensure_enum_property(container, key, etype), likewise
ensure_enum_property(node, etype) ==
    SetDefault(StoreKey(node, "tag", EnumTag(etype)), "Enum", JStr(etype \o "::"))

---------------------------------------------------------------------------
(* Calling a typed setter on a property node *)

MaxCalls == 2       \* identical calls made in a row

\* -1, 0, 1, 7, 2^31 - 2, 2^31 - 1, 2^31, 5 * 10^9
SetterInts == {Wide(-1, 65535), WideZero, Wide(0, 1), Wide(0, 7), Wide(32767, 65534),
               INT32_MAX, Wide(32768, 0), Wide(76293, 61952)}
\* what an Int or Int64 slot of a save holds
SlotInts   == {WideZero, Wide(0, 7), INT32_MAX, Wide(76293, 61952)}
EnumValues == {"E_ACTIVE_IDLE", "ELStargazerType::E_ACTIVE_IDLE", "ELEquipSlotType::E_NONE", ""}
SlotEnums  == {"ELStargazerType::", "ELStargazerType::E_ACTIVE_IDLE", "E_ACTIVE_IDLE"}

\* the property nodes of a save, a node without a slot, and a node with
\* both int slots
SetterNodes ==
    {JDict(<<>>)}
    \cup {JDict(<< <<"tag", OtherTag("IntProperty")>>, <<"Int", JInt(w)>> >>) : w \in SlotInts}
    \cup {JDict(<< <<"tag", OtherTag("Int64Property")>>, <<"Int64", JInt(w)>> >>) : w \in SlotInts}
    \cup {JDict(<< <<"Int64", JInt(Wide(0, 7))>>, <<"Int", JInt(w)>> >>) : w \in SlotInts}
    \cup {JDict(<< <<"tag", OtherTag("BoolProperty")>>, <<"Bool", JBool(b)>> >>) : b \in BOOLEAN}
    \cup {JDict(<< <<"Bool", JBool(b)>> >>) : b \in BOOLEAN}
    \cup {JDict(<< <<"tag", EnumTag("ELStargazerType")>>, <<"Enum", JStr(e)>> >>) : e \in SlotEnums}

InitSetters ==
    /\ HashIdle /\ MergeIdle /\ RetargetIdle /\ SaveIdle /\ DiscoverIdle /\ ImportIdle
    /\ AccessIdle /\ CheatIdle /\ AsyncIdle
    /\ tNode \in SetterNodes
    /\ tNode0 = tNode
    /\ \/ tSetter = "int"  /\ tValue \in {JInt(w) : w \in SetterInts} /\ tEnumType = ""
       \/ tSetter = "bool" /\ tValue \in {JBool(b) : b \in BOOLEAN} /\ tEnumType = ""
       \/ tSetter = "enum" /\ tValue \in {JStr(e) : e \in EnumValues}
                           /\ tEnumType = "ELStargazerType"
    /\ tApply \in BOOLEAN
    /\ tChanged = <<>>

\* the node and the returned value after a call that gives r
Returned(r) ==
    /\ tNode' = r.node
    /\ tChanged' = Append(tChanged, r.changed)
    /\ UNCHANGED <<tNode0, tSetter, tValue, tEnumType, tApply, notSetters>>

SetInt ==
    /\ tSetter = "int" /\ Len(tChanged) < MaxCalls
    /\ Returned(set_int(tNode, tValue, tApply))

SetBool ==
    /\ tSetter = "bool" /\ Len(tChanged) < MaxCalls
    /\ Returned(set_bool(tNode, tValue, tApply))

SetEnum ==
    /\ tSetter = "enum" /\ Len(tChanged) < MaxCalls
    /\ Returned(set_enum(tNode, tEnumType, tValue.s, tApply))

\* the node a cheat is about to set is first fetched with the ensure helper
\* of its kind
Ensured(node) ==
    /\ tChanged = <<>>
    /\ tNode' = node
    /\ tNode0' = node
    /\ UNCHANGED <<tSetter, tValue, tEnumType, tApply, tChanged, notSetters>>

EnsureInt  == tSetter = "int"  /\ Ensured(ensure_int_property(tNode))
EnsureBool == tSetter = "bool" /\ Ensured(ensure_bool_property(tNode))
EnsureEnum == tSetter = "enum" /\ Ensured(ensure_enum_property(tNode, tEnumType))

NextSetters == SetInt \/ SetBool \/ SetEnum \/ EnsureInt \/ EnsureBool \/ EnsureEnum

SpecSetters == InitSetters /\ [][NextSetters]_vars

---------------------------------------------------------------------------
(* Properties of the typed setters *)

\* max(0, min(2^31 - 1, v))
Clamped(v) ==
    IF WideLess(v, WideZero) THEN WideZero ELSE IF WideLess(INT32_MAX, v) THEN INT32_MAX ELSE v

\* the numeric slot the integer setter uses on a node: Int where it is there,
\* Int64 where only that is, Int where neither is
SlotUsed(node) ==
    IF HasKey(node, "Int") THEN "Int" ELSE IF HasKey(node, "Int64") THEN "Int64" ELSE "Int"

\* C13: for every integer v and every node, after the integer setter is
\* called with apply=true the numeric slot it used (Int, or Int64 when that
\* is the slot present) holds max(0, min(2^31 - 1, v)).
C13_ClampInvariant ==
    (tSetter = "int" /\ tApply /\ tChanged # <<>>) =>
        /\ HasKey(tNode, SlotUsed(tNode0))
        /\ Lookup(tNode, SlotUsed(tNode0)) = JInt(Clamped(tValue.i))

\* the setter was called with 5 * 10^9 on an Int64 node holding 7: the call
\* reported a change and the Int64 slot holds 2^31 - 1
C13_Witness ==
    /\ tSetter = "int" /\ tApply /\ tChanged = <<TRUE>>
    /\ tValue = JInt(Wide(76293, 61952))
    /\ tNode0 = JDict(<< <<"tag", OtherTag("Int64Property")>>, <<"Int64", JInt(Wide(0, 7))>> >>)
    /\ tNode = JDict(<< <<"tag", OtherTag("Int64Property")>>, <<"Int64", JInt(INT32_MAX)>> >>)

\* what the setter in use returns for a call with apply=true on node
AppliedTo(node) ==
    CASE tSetter = "int"  -> set_int(node, tValue, TRUE)
      [] tSetter = "bool" -> set_bool(node, tValue, TRUE)
      [] tSetter = "enum" -> set_enum(node, tEnumType, tValue.s, TRUE)

\* C14: for each typed setter, every node and every value, a call with
\* apply=false leaves the node unchanged and returns the boolean that the
\* call with apply=true returns on an identical node.
C14_DryRunFaithful ==
    (~tApply /\ tChanged # <<>>) =>
        /\ tNode = tNode0
        /\ \A n \in 1..Len(tChanged) : tChanged[n] = AppliedTo(tNode0).changed

\* a dry call of the enum setter on a node that holds another value: the
\* change is reported, as the applying call reports it, and the node is as
\* it was
C14_Witness ==
    /\ tSetter = "enum" /\ ~tApply /\ tChanged = <<TRUE>>
    /\ tValue = JStr("E_ACTIVE_IDLE")
    /\ tNode0 = JDict(<< <<"tag", EnumTag("ELStargazerType")>>, <<"Enum", JStr("ELStargazerType::")>> >>)
    /\ tNode = tNode0
    /\ AppliedTo(tNode0).changed /\ AppliedTo(tNode0).node # tNode0

\* C15: for each typed setter, after one call with apply=true an immediately
\* repeated identical call returns changed=false and leaves the node as it
\* was after the first call.
C15_RepeatedCallNoChange ==
    [][(tApply /\ tChanged # <<>>) => (tNode' = tNode /\ tChanged' = Append(tChanged, FALSE))]_vars

\* the bool setter was called twice with True on a node holding False: the
\* first call reported a change, the second none
C15_Witness ==
    /\ tSetter = "bool" /\ tApply /\ tChanged = <<TRUE, FALSE>>
    /\ tValue = JBool(TRUE)
    /\ tNode0 = JDict(<< <<"tag", OtherTag("BoolProperty")>>, <<"Bool", JBool(FALSE)>> >>)
    /\ tNode = JDict(<< <<"tag", OtherTag("BoolProperty")>>, <<"Bool", JBool(TRUE)>> >>)

\* the value slots of a node that are populated
PopulatedSlots(node) ==
    {slot \in {"Int", "Int64", "Bool", "Enum"} : HasKey(node, slot) /\ Lookup(node, slot) # JNull}

\* the tag of node names the kind of slot
TagNames(node, slot) ==
    /\ HasKey(node, "tag")
    /\ CASE slot = "Int"   -> Lookup(node, "tag") = OtherTag("IntProperty")
         [] slot = "Int64" -> Lookup(node, "tag") = OtherTag("Int64Property")
         [] slot = "Bool"  -> Lookup(node, "tag") = OtherTag("BoolProperty")
         [] slot = "Enum"  -> \E t \in {"ELStargazerType", "ELEquipSlotType"} :
                                  Lookup(node, "tag") = EnumTag(t)

\* one populated value slot, named by the tag
WellFormedNode(node) ==
    \E slot \in PopulatedSlots(node) : PopulatedSlots(node) = {slot} /\ TagNames(node, slot)

\* the slots of the kind the setter or ensure helper in use is for
SlotsOfKind ==
    CASE tSetter = "int"  -> {"Int", "Int64"}
      [] tSetter = "bool" -> {"Bool"}
      [] tSetter = "enum" -> {"Enum"}
      [] OTHER            -> {}

\* C23: a call of a typed setter or of an ensure helper on a well-formed
\* property node of its kind leaves the node well-formed: one populated value
\* slot, and a tag that names the kind of that slot; so the nodes stay
\* well-formed over any sequence of such calls.
C23_NodesStayWellFormed ==
    [][(WellFormedNode(tNode) /\ PopulatedSlots(tNode) \subseteq SlotsOfKind)
           => WellFormedNode(tNode')]_vars

---------------------------------------------------------------------------
(* Calling _set on a tree, then _get on the path in another letter case *)

MaxPath == 3

\* trees with nested dicts and lists, a stored null, keys that differ in
\* letter case only, and a list at the root
AccessTrees ==
    { JDict(<< <<"Quest", JDict(<< <<"Kills", JInt(1)>>,
                                   <<"quest", JList(<<JDict(<< <<"kills", JInt(2)>> >>), JInt(5)>>)>> >>)>>,
               <<"Kills", JNull>> >>),
      JDict(<< <<"Kills", JInt(0)>>, <<"kills", JInt(1)>> >>),
      JList(<<JList(<<JInt(1), JInt(2)>>), JDict(<< <<"QUEST", JStr("x")>> >>)>>),
      JDict(<< <<"quest", JList(<<JDict(<< <<"KILLS", JInt(3)>> >>)>>)>> >>) }

\* keys in several letter cases, a key no tree holds, indices below, in and
\* beyond the lists
AccessTokens ==
    {Key("Quest"), Key("QUEST"), Key("Kills"), Key("kills"), Key("Zed"),
     Idx(-1), Idx(0), Idx(2)}

AccessPaths == UNION {[1..n -> AccessTokens] : n \in 0..MaxPath}

AccessValues == {JInt(7), JNull, JStr("E_DONE"), JDict(<< <<"Kills", JInt(9)>> >>), JList(<<>>)}

\* a token in the letter cases it may be asked in, and the paths that differ
\* from path in the letter case of their str tokens only
CaseForms(p) ==
    IF IsKeyTok(p) THEN {Key(p.s), Key(str_upper(p.s)), Key(str_lower(p.s))} ELSE {p}

RECURSIVE CasePaths(_)
CasePaths(path) ==
    IF path = <<>> THEN {<<>>}
    ELSE {<<h>> \o t : h \in CaseForms(Head(path)), t \in CasePaths(Tail(path))}

InitAccess ==
    /\ HashIdle /\ MergeIdle /\ RetargetIdle /\ SaveIdle /\ DiscoverIdle /\ ImportIdle
    /\ SetterIdle /\ CheatIdle /\ AsyncIdle
    /\ pObj \in AccessTrees
    /\ pObj0 = pObj
    /\ pPath \in AccessPaths
    /\ pVal \in AccessValues
    /\ pPc = "call" /\ pOk = FALSE /\ pAsked = <<>> /\ pGot = JNull

\* _set(obj, path, val): obj is changed in place, the bool is returned
CallSet ==
    /\ pPc = "call"
    /\ \E r \in {set(pObj, pPath, pVal)} :
           /\ pObj' = r.tree
           /\ pOk' = r.ok
    /\ pPc' = "set"
    /\ UNCHANGED <<pObj0, pPath, pVal, pAsked, pGot, notAccess>>

\* _get(obj, path') after a write that returned True, for a path' that
\* differs from path in letter case only
CallGet ==
    /\ pPc = "set" /\ pOk
    /\ \E asked \in CasePaths(pPath) :
           /\ pAsked' = asked
           /\ pGot' = get(pObj, asked)
    /\ pPc' = "got"
    /\ UNCHANGED <<pObj, pObj0, pPath, pVal, pOk, notAccess>>

NextAccess == CallSet \/ CallGet

SpecAccess == InitAccess /\ [][NextAccess]_vars

---------------------------------------------------------------------------
(* Properties of _set and _get *)

\* the value at a position of x, a position being the places (1-based, of the
\* entry in a dict, of the element in a list) from the root down
RECURSIVE At(_, _)
At(x, at) ==
    IF at = <<>> THEN x
    ELSE IF IsList(x) THEN At(x.l[Head(at)], Tail(at))
    ELSE At(x.d[Head(at)][2], Tail(at))

\* the containers of x: where each one is, its kind, and for a list its length
RECURSIVE ContainersOf(_, _)
ContainersOf(x, at) ==
    IF IsList(x)
    THEN {[at |-> at, kind |-> "list", len |-> Len(x.l)]}
             \cup UNION {ContainersOf(x.l[n], Append(at, n)) : n \in DOMAIN x.l}
    ELSE IF IsDict(x)
    THEN {[at |-> at, kind |-> "dict", len |-> 0]}
             \cup UNION {ContainersOf(x.d[n][2], Append(at, n)) : n \in DOMAIN x.d}
    ELSE {}

\* the container at e lies in the value just written
InWritten(e) == \E n \in 0..Len(e.at) : At(pObj, SubSeq(e.at, 1, n)) = pVal

\* what the path up to its last token leads to in the tree at the call
ParentAtCall == get(pObj0, SubSeq(pPath, 1, Len(pPath) - 1))
LastToken == pPath[Len(pPath)]

\* the cases in which _set is to refuse the write
PathRefused ==
    \/ pPath = <<>>
    \/ \E n \in 1..(Len(pPath) - 1) : get(pObj0, SubSeq(pPath, 1, n)) = JNull
    \/ /\ IsList(ParentAtCall) /\ IsIdxTok(LastToken)
       /\ ~(0 <= LastToken.i /\ LastToken.i < Len(ParentAtCall.l))

\* C16: _set returns False and leaves the whole tree as it was when the path is
\* empty, when a token before the last does not resolve (a missing key, a
\* token of the wrong kind for the container, an index that is negative or
\* beyond the end), or when the last token is a negative or out-of-range index
\* of a list; a call that returns False changes nothing; and after any call
\* every container of the tree was there before, a list with the length it
\* had, unless it lies in the value written: no list grows or shrinks and no
\* container is made for a missing step of the path.
C16_SetRefusesAndNeverGrows ==
    pPc # "call" =>
        /\ PathRefused => ~pOk
        /\ ~pOk => pObj = pObj0
        /\ \A e \in ContainersOf(pObj, <<>>) :
               e \in ContainersOf(pObj0, <<>>) \/ InWritten(e)

\* a write below the root to the index just past the end of a list was refused
C16_Witness ==
    /\ pPc = "set" /\ ~pOk /\ pObj = pObj0
    /\ Len(pPath) >= 2
    /\ IsList(ParentAtCall) /\ IsIdxTok(LastToken) /\ LastToken.i = Len(ParentAtCall.l)

\* the keys of dict d whose lowered form is that of key
SameLowered(d, key) == {n \in DOMAIN d.d : str_lower(d.d[n][1]) = str_lower(key)}

\* C17: after _set(tree, path, v) returned True, _get(tree, path') is v for
\* every path' that differs from path only in the letter case of its str
\* tokens; and where the last token is a key that the dict written to already
\* held in some letter case, that entry is overwritten and the dict has as
\* many keys as before.
C17_CaseInsensitiveKeys ==
    /\ (pPc = "got" /\ pOk) => pGot = pVal
    /\ (pPc # "call" /\ pOk /\ IsDict(ParentAtCall) /\ IsKeyTok(LastToken)
        /\ SameLowered(ParentAtCall, LastToken.s) # {})
           => Len(get(pObj, SubSeq(pPath, 1, Len(pPath) - 1)).d) = Len(ParentAtCall.d)

\* a key stored as "kills" or "KILLS" was written as "Kills" below the root
\* and read back through a path in yet another letter case
C17_Witness ==
    /\ pPc = "got" /\ pOk /\ pGot = pVal /\ pVal # JNull
    /\ Len(pPath) >= 2 /\ pAsked # pPath
    /\ IsDict(ParentAtCall) /\ IsKeyTok(LastToken)
    /\ ~HasKey(ParentAtCall, LastToken.s)
    /\ SameLowered(ParentAtCall, LastToken.s) # {}

---------------------------------------------------------------------------
(* discover_quests on saves that keep their quest list in different places *)

SaveWith(qsd) ==
    JDict(<< <<"root", JDict(<< <<"properties", JDict(<< <<"QuestSaveData_0", qsd>> >>)>> >>)>> >>)

\* the places of the quest list: Array.Struct.value at the known path,
\* Array.value, below generic wrapper keys only, and off the known path
RouteSaves(lst) ==
    { SaveOf(lst),
      SaveWith(JDict(<< <<"Array", JDict(<< <<"value", lst>> >>)>> >>)),
      SaveWith(JDict(<< <<"Struct", JDict(<< <<"QuestList_0",
                   JDict(<< <<"Array", JDict(<< <<"value", lst>> >>)>> >>)>> >>)>> >>)),
      SaveWith(JDict(<< <<"value", lst>> >>)),
      SaveWith(JDict(<< <<"Struct", JDict(<< <<"data", lst>> >>)>> >>)),
      SaveOffPath(lst) }

RouteLists == QuestListsOf({Forge("ELQuestState::E_INACTIVE"), ForgeTwo("E_INACTIVE"), ForgeTagged})

InitRows ==
    /\ hashOrder \in HashOrders
    /\ keyOrder = [state |-> FALSE, name |-> FALSE]
    /\ MergeIdle /\ RetargetIdle /\ SaveIdle /\ ImportIdle /\ SetterIdle /\ AccessIdle /\ CheatIdle /\ AsyncIdle
    /\ dData \in UNION {RouteSaves(lst) : lst \in RouteLists}
    /\ dPc = "ready"
    /\ dFound = NoList("")
    /\ dRows = [ok |-> TRUE, rows |-> <<>>, debug_meta |-> <<>>]

\* rows, debug_meta = discover_quests(data)
DiscoverQuests ==
    /\ dPc = "ready"
    /\ dFound' = find_quest_array_and_path(dData)
    /\ dRows' = discover_quests(dData)
    /\ dPc' = "rows"
    /\ UNCHANGED <<dData, notDiscover>>

NextRows == DiscoverQuests

SpecRows == InitRows /\ [][NextRows]_vars

\* a write of val through path succeeds and the value is then read there
WritesThrough(path, val) ==
    LET Done(r) == r.ok /\ get(r.tree, path) = val
    IN  Done(set(dData, path, val))

\* C22: for every row discover_quests returns, by whichever route the list
\* was found, the absolute paths resolve in the tree: elem_base_abs leads to
\* the unwrapped element, the path_abs of each progress object to the value
\* recorded for it, state_path_abs to the state node, and a write through a
\* progress path succeeds and is read back there.
C22_RowPathsResolve ==
    (dPc = "rows" /\ dRows.ok) =>
        \A n \in 1..Len(dRows.rows) :
            /\ get(dData, dRows.rows[n].elem_base_abs) = unwrap(dFound.lst.l[n])
            /\ \A o \in 1..Len(dRows.rows[n].progress_objects) :
                   /\ get(dData, dRows.rows[n].progress_objects[o].path_abs)
                          = dRows.rows[n].progress_objects[o].value
                   /\ WritesThrough(dRows.rows[n].progress_objects[o].path_abs, JInt(7))
            /\ dRows.rows[n].state_path_abs.found
                   => get(dData, dRows.rows[n].state_path_abs.path) # JNull

\* the order the wrapper keys are to be tried in
PriorityOrder == <<"struct", "value", "data", "tag">>

\* C24: where an element is a mapping with several generic wrapper keys that
\* hold containers, unwrap and unwrap_with_path descend into the first of
\* Struct, value, data, tag in that order: the node and the path they give
\* for an element are those of that order in every process.
C24_WrapperPriorityFixed ==
    dPc = "rows" =>
        \A n \in 1..Len(dFound.lst.l) :
            /\ unwrap(dFound.lst.l[n]) = unwrap_loop(dFound.lst.l[n], 0, PriorityOrder)
            /\ dRows.rows[n].elem_base_abs =
                   unwrap_with_path_loop(dFound.lst.l[n], Append(dFound.path, Idx(n - 1)),
                                         0, PriorityOrder).path

---------------------------------------------------------------------------
(* cheats.py: _g, _char_struct, _ensure_dict, godmode *)

RECURSIVE g(_, _, _)
\* _g(d, *keys, default=default): _lk lowers the keys as _lkeys does
g(d, keys, default) ==
    LET Below(lk, low) ==
            IF lk_has(lk, low) THEN g(Lookup(d, lk_get(lk, low)), Tail(keys), default)
            ELSE default
    IN  IF keys = <<>> THEN (IF d # JNull THEN d ELSE default)
        ELSE IF ~IsDict(d) THEN default
        ELSE Below(lkeys(d), str_lower(Head(keys)))

CharStructKeys == <<"root", "properties", "CharacterSaveData_0", "Struct", "Struct">>

\* _g(root, "root", ..., default={}) or {}: [ch, in_tree]; an empty or
\* missing struct gives a new dict that is no part of the tree
char_struct(root) ==
    LET Of(found) ==
            IF IsTruthy(found) THEN [ch |-> found, in_tree |-> TRUE]
            ELSE [ch |-> JDict(<<>>), in_tree |-> FALSE]
    IN  Of(g(root, CharStructKeys, JDict(<<>>)))

\* _ensure_dict(parent, key): parent afterwards
ensure_dict(parent, key) ==
    IF ~HasKey(parent, key) \/ ~IsDict(Lookup(parent, key))
    THEN StoreKey(parent, key, JDict(<<>>)) ELSE parent

HealthKeys == <<"SecondStat_HeadthPoint_0", "SecondStat_HealthPoint_0">>

RECURSIVE godmode_loop(_, _, _, _)
\* the loop of godmode from the key at place n on: [ch, changed]
godmode_loop(ch, n, changed, dry_run) ==
    LET Set(held, r) ==
            godmode_loop(StoreKey(held, HealthKeys[n], r.node), n + 1,
                         changed + (IF r.changed THEN 1 ELSE 0), dry_run)
        With(held) ==
            Set(held, set_int(ensure_int_property(Lookup(held, HealthKeys[n])),
                              JInt(INT32_MAX), ~dry_run))
    IN  IF n > Len(HealthKeys) THEN [ch |-> ch, changed |-> changed]
        ELSE With(ensure_dict(ch, HealthKeys[n]))

\* godmode(data, dry_run=dry_run): [data, changed], data as the call leaves it
godmode(data, dry_run) ==
    LET Path == [n \in 1..Len(CharStructKeys) |-> Key(CharStructKeys[n])]
        Done(c, r) ==
            [data    |-> IF c.in_tree THEN set(data, Path, r.ch).tree ELSE data,
             changed |-> r.changed]
        In(c) == Done(c, godmode_loop(c.ch, 1, 0, dry_run))
    IN  In(char_struct(data))

---------------------------------------------------------------------------
(* Calling godmode on a save *)

IntNode(w)   == JDict(<< <<"tag", OtherTag("IntProperty")>>, <<"Int", JInt(w)>> >>)
Int64Node(w) == JDict(<< <<"tag", OtherTag("Int64Property")>>, <<"Int64", JInt(w)>> >>)

\* what a character struct holds under a health key: nothing, or a node
HealthSlots == {JNull, IntNode(Wide(0, 7)), IntNode(INT32_MAX), Int64Node(Wide(0, 7)),
                Int64Node(INT32_MAX)}

CharStructOf(first, second, level) ==
    JDict((IF level = JNull THEN <<>> ELSE << <<"PlayerLevel_0", level>> >>)
          \o (IF first = JNull THEN <<>> ELSE << <<HealthKeys[1], first>> >>)
          \o (IF second = JNull THEN <<>> ELSE << <<HealthKeys[2], second>> >>))

CharSave(ch) ==
    JDict(<< <<"root", JDict(<< <<"properties", JDict(<< <<"CharacterSaveData_0",
              JDict(<< <<"Struct", JDict(<< <<"Struct", ch>> >>)>> >>)>> >>)>> >>)>> >>)

CheatSaves ==
    {CharSave(CharStructOf(a, b, l)) : a \in HealthSlots, b \in HealthSlots,
                                       l \in {JNull, IntNode(Wide(0, 7))}}
        \cup {JDict(<< <<"root", JDict(<< <<"properties", JDict(<<>>)>> >>)>> >>)}

InitCheat ==
    /\ HashIdle /\ MergeIdle /\ RetargetIdle /\ SaveIdle /\ DiscoverIdle /\ ImportIdle
    /\ SetterIdle /\ AccessIdle /\ AsyncIdle
    /\ gData \in CheatSaves
    /\ gData0 = gData
    /\ gDryRun \in BOOLEAN
    /\ gPc = "call"
    /\ gChanged = 0

\* changed = godmode(data, dry_run=dry_run)
Godmode ==
    /\ gPc = "call"
    /\ \E r \in {godmode(gData, gDryRun)} :
           /\ gData' = r.data
           /\ gChanged' = r.changed
    /\ gPc' = "returned"
    /\ UNCHANGED <<gData0, gDryRun, notCheat>>

NextCheat == Godmode

SpecCheat == InitCheat /\ [][NextCheat]_vars

\* C25: godmode called with dry_run=True is a faithful preview: it leaves the
\* tree as it was, and the count it returns is the count the real run
\* returns on an identical tree.
C25_DryRunLeavesTree ==
    (gPc = "returned" /\ gDryRun) =>
        /\ gData = gData0
        /\ gChanged = godmode(gData0, FALSE).changed

---------------------------------------------------------------------------
(* async_save.py: SaveSavAsync.start, SaveSavAsync.cancel, _SaveWorker.run *)

MaxSaveCalls == 3

\* a signal posted to, or emitted in, the thread the SaveSavAsync object lives in
Progress(pct) == [sig |-> "progress", pct |-> pct]
Signal(name)  == [sig |-> name]

\* the pings of save_sav in order; a save that raises has made a prefix of the
\* first three
SavePings == <<45, 55, 60, 100>>

\* a plausible slip: start() does not look at _cancel_requested
start_ignoring_cancel(cancel_requested, thread) ==
    IF thread THEN "ignored" ELSE "started"

\* start(): lines 62-66 decide what the call does
start(cancel_requested, thread) ==
    IF cancel_requested THEN "canceled"
    ELSE IF thread THEN "ignored"
    ELSE "started"

InitAsync ==
    /\ HashIdle /\ MergeIdle /\ RetargetIdle /\ SaveIdle /\ DiscoverIdle /\ ImportIdle
    /\ SetterIdle /\ AccessIdle /\ CheatIdle
    /\ aCancelRequested = FALSE
    /\ aThread = FALSE
    /\ aWorker = "none"
    /\ aQuit = FALSE
    /\ aQueue = <<>>
    /\ aEmitted = <<>>
    /\ aCalls = <<>>
    /\ aStarted = 0

\* start() on the object's thread
CallStart ==
    /\ Len(aCalls) < MaxSaveCalls
    /\ aCalls' = Append(aCalls, "start")
    /\ \E does \in {start(aCancelRequested, aThread)} :
          /\ aEmitted' = IF does = "canceled" THEN Append(aEmitted, Signal("canceled"))
                         ELSE aEmitted
          /\ aThread'  = (aThread \/ does = "started")
          /\ aWorker'  = IF does = "started" THEN "started" ELSE aWorker
          /\ aStarted' = IF does = "started" THEN aStarted + 1 ELSE aStarted
    /\ UNCHANGED <<aCancelRequested, aQuit, aQueue, notAsync>>

\* cancel() on the object's thread
CallCancel ==
    /\ Len(aCalls) < MaxSaveCalls
    /\ aCalls' = Append(aCalls, "cancel")
    /\ aCancelRequested' = TRUE
    /\ aEmitted' = Append(aEmitted, Signal("canceled"))
    /\ UNCHANGED <<aThread, aWorker, aQuit, aQueue, aStarted, notAsync>>

\* the new thread runs run() up to the call of save_sav
RunBegin ==
    /\ aWorker = "started"
    /\ aWorker' = "saving"
    /\ aQueue' = aQueue \o <<Progress(10), Progress(40)>>
    /\ UNCHANGED <<aCancelRequested, aThread, aQuit, aEmitted, aCalls, aStarted, notAsync>>

\* save_sav returns: progress 100 and finished; finished is connected to the
\* thread's quit first and to the object's finished second
RunSaved ==
    /\ aWorker = "saving"
    /\ aWorker' = "returned"
    /\ aQueue' = aQueue \o [n \in 1..Len(SavePings) |-> Progress(SavePings[n])]
                        \o <<Progress(100), Signal("quit"), Signal("finished")>>
    /\ UNCHANGED <<aCancelRequested, aThread, aQuit, aEmitted, aCalls, aStarted, notAsync>>

\* save_sav raises: error, connected to quit first and to the object's error
\* second
RunFailed ==
    /\ aWorker = "saving"
    /\ aWorker' = "returned"
    /\ \E made \in 0..(Len(SavePings) - 1) :
          aQueue' = aQueue \o [n \in 1..made |-> Progress(SavePings[n])]
                           \o <<Signal("quit"), Signal("error")>>
    /\ UNCHANGED <<aCancelRequested, aThread, aQuit, aEmitted, aCalls, aStarted, notAsync>>

\* the thread's event loop ends after quit; its finished is connected to _cleanup
ThreadExit ==
    /\ aWorker = "returned" /\ aQuit
    /\ aWorker' = "exited"
    /\ aQueue' = Append(aQueue, Signal("cleanup"))
    /\ UNCHANGED <<aCancelRequested, aThread, aQuit, aEmitted, aCalls, aStarted, notAsync>>

\* the object's thread handles the oldest queued event: the worker's signals
\* are emitted again as the object's, quit is passed on, _cleanup runs
Deliver ==
    /\ aQueue # <<>>
    /\ aQueue' = Tail(aQueue)
    /\ \E ev \in {Head(aQueue)} :
          /\ aEmitted' = IF ev.sig \in {"progress", "finished", "error"}
                         THEN Append(aEmitted, ev) ELSE aEmitted
          /\ aQuit'    = IF ev.sig = "quit" THEN TRUE
                         ELSE IF ev.sig = "cleanup" THEN FALSE ELSE aQuit
          /\ aThread'  = IF ev.sig = "cleanup" THEN FALSE ELSE aThread
          /\ aWorker'  = IF ev.sig = "cleanup" THEN "none" ELSE aWorker
    /\ UNCHANGED <<aCancelRequested, aCalls, aStarted, notAsync>>

NextAsync ==
    CallStart \/ CallCancel \/ RunBegin \/ RunSaved \/ RunFailed \/ ThreadExit \/ Deliver

SpecAsync == InitAsync /\ [][NextAsync]_vars

---------------------------------------------------------------------------
(* Properties of SaveSavAsync *)

Emissions(emitted, name) == Len(SelectSeq(emitted, LAMBDA e : e.sig = name))

Canceled == Emissions(aEmitted, "canceled") > 0

\* C30 as stated: once canceled has been emitted, no save worker is started
\* afterwards and finished is not emitted afterwards, whatever the order of
\* start(), cancel() and the worker's completion.
C30_NothingAfterCanceled ==
    [][Canceled => /\ aStarted' = aStarted
                   /\ Emissions(aEmitted', "finished") = Emissions(aEmitted, "finished")]_vars

\* C30 as amended: once canceled has been emitted, no save worker is started
\* afterwards, and finished is not emitted afterwards unless the worker of an
\* earlier start() is still there (_thread not yet cleaned up).
C30_NoStartAfterCanceled ==
    [][Canceled => /\ aStarted' = aStarted
                   /\ ~aThread => Emissions(aEmitted', "finished")
                                      = Emissions(aEmitted, "finished")]_vars

\* start(), cancel(), start(): the second start() was refused, the worker of
\* the first completed and its finished came after canceled, _cleanup has run
C30_Witness ==
    /\ aCalls = <<"start", "cancel", "start">>
    /\ aStarted = 1
    /\ ~aThread
    /\ aQueue = <<>>
    /\ \E i, j \in DOMAIN aEmitted :
          i < j /\ aEmitted[i].sig = "canceled" /\ aEmitted[j].sig = "finished"

====
